---------------------------- MODULE Spec2Model ----------------------------
(***************************************************************************)
(* A model of the maxrows result-set limiting filter                       *)
(* (server/modules/filter/maxrows/maxrows.c) and of the length-encoded     *)
(* integer helpers it uses (server/core/mysql_utils.c).                    *)
(*                                                                         *)
(* The server's reply to one request is a sequence of framed MySQL packets *)
(* (wire).  It reaches clientReply in chunks; a chunk boundary may fall    *)
(* anywhere.  A GWBUF holding server bytes is modelled as the range of     *)
(* wire positions it holds, so that a 16 MiB packet costs nothing; the     *)
(* bytes themselves are computed from the frames by WireByte.              *)
(***************************************************************************)
EXTENDS Integers, Sequences, FiniteSets, TLC

(***************************************************************************)
(* Bounds of the model.                                                    *)
(***************************************************************************)
\* Largest number of logical rows in a generated result set.
MaxRows == 3
\* Largest configured max_resultset_rows.
MaxRowsLimit == 2
\* Chunk boundaries are placed 1..MaxCut bytes into a packet and at its end.
MaxCut == 5
\* The configured max_resultset_size values that are tried.
SmallSize == 4
MidSize == 40
BigSize == 100000000
MaxByteWise == 200
\* Largest number of table names the classifier returns for a query.
MaxTables == 3
\* Longest length-encoded string that is decoded.
MaxStringLen == 65536
\* Latest time of the storage's clock, in seconds.
MaxTime == 3
\* Largest number of parameters handed to the querylogfilter.
MaxParams == 2
\* Number of threads that create sessions of a querylogfilter instance, and the
\* largest number of calls of newSession they make together.
MaxThreads == 2
MaxSessions == 3
\* Largest value of a counter of a querylogfilter session that updateCounters
\* and writeLogIfNeeded are called with, and the largest number of queries
\* routed to one session.
MaxCount == 1
MaxQueries == 2

(***************************************************************************)
(* Protocol constants (maxscale/protocol/mysql.h, maxrows.h).              *)
(***************************************************************************)
MYSQL_HEADER_LEN == 4
MYSQL_PACKET_LENGTH_MAX == 16777215
MAXROWS_EOF_PACKET_LEN == 9
MAXROWS_MYSQL_EOF_PACKET_FLAGS_OFFSET == 7
SERVER_MORE_RESULTS_EXIST == 8
MYSQL_COM_QUERY == 3
MYSQL_COM_STMT_EXECUTE == 23
MYSQL_COM_PING == 14

MAXROWS_EXPECTING_RESPONSE == "EXPECTING_RESPONSE"
MAXROWS_EXPECTING_FIELDS == "EXPECTING_FIELDS"
MAXROWS_EXPECTING_ROWS == "EXPECTING_ROWS"
MAXROWS_EXPECTING_NOTHING == "EXPECTING_NOTHING"
MAXROWS_IGNORING_RESPONSE == "IGNORING_RESPONSE"
\* The session data has been released with MXS_FREE.
SESSION_FREED == "FREED"

VARIABLES
    config,     \* MAXROWS_CONFIG of the instance: immutable after createInstance
    csdata,     \* MAXROWS_SESSION_DATA of the session
    wire,       \* the server's reply to the last request, as framed packets
    sent,       \* how many bytes of wire have been handed to clientReply
    request,    \* the command byte of the last request
    upstream,   \* what up.clientReply has been handed since the last request
    downstream, \* the calls of down.routeQuery made by the last call of the filter
    rv,         \* what the last call of the filter returned
    last,       \* what the last clientReply call saw and did
    hist,       \* what has happened to the reply since the last request
    keycall,    \* the last call of RocksDBStorage::Get_key: its arguments and results
    codec,      \* a buffer, a pointer into it and what a mysql_utils.c call made of them
    storage,    \* a RocksDBStorage: its database, its clock and its last call
    querylog    \* the querylogfilter: its instance, its sessions and its callers

\* The variables of the maxrows filter, and those of the other components.
maxrows_vars ==
    <<config, csdata, wire, sent, request, upstream, downstream, rv, last, hist>>

other_vars == <<keycall, codec, storage, querylog>>

vars == <<maxrows_vars, other_vars>>

(***************************************************************************)
(* Bytes and little-endian integers.                                       *)
(***************************************************************************)
\* gw_mysql_get_byte2 / gw_mysql_get_byte3 over a byte sequence, from 1-based i.
gw_mysql_get_byte2(b, i) == b[i] + 256 * b[i + 1]

gw_mysql_get_byte3(b, i) == b[i] + 256 * b[i + 1] + 65536 * b[i + 2]

\* header is the packet from its first byte.
MYSQL_GET_PAYLOAD_LEN(header) == gw_mysql_get_byte3(header, 1)

MYSQL_GET_COMMAND(header) == header[MYSQL_HEADER_LEN + 1]

\* A uint64_t is kept as its memory image, 8 bytes little-endian.
U64Zero == <<0, 0, 0, 0, 0, 0, 0, 0>>

\* memcpy(&sz, src, n) on a zeroed uint64_t.
U64FromBytes(src, n) == [k \in 1..8 |-> IF k <= n THEN src[k] ELSE 0]

U64FromNat(v) ==
    <<v % 256, (v \div 256) % 256, (v \div 65536) % 256, (v \div 16777216) % 256,
      0, 0, 0, 0>>

\* The value of a uint64_t below 2^31.
U64ToNat(u) == u[1] + 256 * u[2] + 65536 * u[3] + 16777216 * u[4]

U64Small(u) == u[4] < 128 /\ \A k \in 5..8 : u[k] = 0

(***************************************************************************)
(* mysql_utils.c: length-encoded integers.  c is the byte sequence that    *)
(* starts at the pointer.                                                  *)
(***************************************************************************)
\* An mxs_leint_value that copies two bytes of a 0xfd integer.
mxs_leint_value_short(c) ==
    IF c[1] < 251 THEN U64FromNat(c[1])
    ELSE IF c[1] = 252 THEN U64FromBytes(SubSeq(c, 2, 3), 2)
    ELSE IF c[1] = 253 THEN U64FromBytes(SubSeq(c, 2, 3), 2)
    ELSE IF c[1] = 254 THEN U64FromBytes(SubSeq(c, 2, 9), 8)
    ELSE U64Zero

mxs_leint_bytes(c) ==
    LET val == c[1]
    IN  IF val < 251 THEN 1
        ELSE IF val = 252 THEN 3
        ELSE IF val = 253 THEN 4
        ELSE 9

mxs_leint_value(c) ==
    IF c[1] < 251 THEN U64FromNat(c[1])
    ELSE IF c[1] = 252 THEN U64FromBytes(SubSeq(c, 2, 3), 2)
    ELSE IF c[1] = 253 THEN U64FromBytes(SubSeq(c, 2, 4), 3)
    ELSE IF c[1] = 254 THEN U64FromBytes(SubSeq(c, 2, 9), 8)
    ELSE U64Zero

(***************************************************************************)
(* mysql_utils.c: the consuming functions.  buf is the memory the pointer  *)
(* points into and pos the number of bytes of buf before the pointer:      *)
(* *c is buf[pos + 1].  Each function gives the pointer it leaves behind.  *)
(***************************************************************************)
\* The bytes from the pointer on.
At(buf, pos) == SubSeq(buf, pos + 1, Len(buf))

mxs_leint_consume(buf, pos) ==
    LET rval == mxs_leint_value(At(buf, pos))
    IN  [rval |-> rval, pos |-> pos + mxs_leint_bytes(At(buf, pos))]

\* An mxs_lestr_consume whose string starts at the length.
mxs_lestr_consume_at_length(buf, pos) ==
    LET slen == mxs_leint_consume(buf, pos)
    IN  [start |-> pos, size |-> slen.rval, pos |-> slen.pos + U64ToNat(slen.rval)]

\* start is where the returned pointer points, as pos is for c.
mxs_lestr_consume(buf, pos) ==
    LET slen == mxs_leint_consume(buf, pos)
    IN  [start |-> slen.pos, size |-> slen.rval, pos |-> slen.pos + U64ToNat(slen.rval)]

\* A char* is NULL or the bytes it points to.
NullStr == [null |-> TRUE, bytes |-> <<>>]

\* malloced says whether MXS_MALLOC returned memory.
mxs_lestr_consume_dup(buf, pos, malloced) ==
    LET slen == mxs_leint_consume(buf, pos)
        n == U64ToNat(slen.rval)
    IN  IF malloced
        THEN [str |-> [null |-> FALSE,
                       bytes |-> SubSeq(buf, slen.pos + 1, slen.pos + n) \o <<0>>],
              pos |-> slen.pos + n]
        ELSE [str |-> NullStr, pos |-> slen.pos]

\* The string of slen bytes after the length is inside buf, so that the
\* memcpy and the pointers stay in the memory the caller owns.
StringInside(buf, pos) ==
    LET slen == mxs_leint_consume(buf, pos)
    IN  /\ slen.pos <= Len(buf)
        /\ U64Small(slen.rval)
        /\ U64ToNat(slen.rval) <= Len(buf) - slen.pos

(***************************************************************************)
(* What the functions are given: length-encoded integers and strings as    *)
(* the MySQL protocol writes them.                                         *)
(***************************************************************************)
\* The shortest encoding of the uint64_t n.
leint_encode(n) ==
    IF n[1] < 251 /\ \A k \in 2..8 : n[k] = 0 THEN <<n[1]>>
    ELSE IF \A k \in 3..8 : n[k] = 0 THEN <<252, n[1], n[2]>>
    ELSE IF \A k \in 4..8 : n[k] = 0 THEN <<253, n[1], n[2], n[3]>>
    ELSE <<254>> \o n

lestr_encode(str) == leint_encode(U64FromNat(Len(str))) \o str

\* The integers that are tried: the ends of each form's range.
U64Values ==
    {U64FromNat(v) : v \in {0, 1, 250, 251, 252, 253, 254, 255, 256, 65535,
                            65536, 16777215, 16777216, 2147483647}}
    \cup {<<0, 0, 0, 0, 1, 0, 0, 0>>, <<1, 2, 3, 4, 5, 6, 7, 8>>,
          <<255, 255, 255, 255, 255, 255, 255, 127>>,
          <<255, 255, 255, 255, 255, 255, 255, 255>>}

\* The string of n bytes that is tried.
StringOf(n) == [i \in 1..n |-> (7 * i + 3) % 256]

StringLengths == {0, 1, 2, 250, 251, 252, 300, 65535, MaxStringLen}

\* Bytes before the pointer and after the value.
Before == {<<>>, <<254, 1>>}

After == {<<>>, <<255>>}

\* Buffers that start with a byte that begins no length-encoded integer.
InvalidFirst == {<<255>> \o U64Zero, <<255, 1, 2, 3, 4, 5, 6, 7, 8>>, <<251>> \o U64Zero}

NoCodecCall == [op |-> "none"]

NoResult ==
    [value |-> U64Zero, width |-> 0, pos |-> 0, start |-> 0, size |-> U64Zero,
     str |-> NullStr]

CodecInput(kind, n, str, enc, before, after) ==
    [op |-> "none", kind |-> kind, n |-> n, s |-> str,
     buf |-> before \o enc \o after, pos |-> Len(before), res |-> NoResult]

CodecInputs ==
    {CodecInput("leint", n, <<>>, leint_encode(n), b, a) :
        n \in U64Values, b \in Before, a \in After}
    \cup {CodecInput("lestr", U64FromNat(l), StringOf(l), lestr_encode(StringOf(l)), b, a) :
        l \in StringLengths, b \in Before, a \in After}
    \cup {CodecInput("invalid", U64Zero, <<>>, c, b, <<>>) :
        c \in InvalidFirst, b \in Before}

(***************************************************************************)
(* The wire: a frame is [len, pre, fill, role]: a packet of payload length *)
(* len whose payload starts with the bytes pre and goes on with the byte   *)
(* fill.  role says what the server meant the packet to be; the filter     *)
(* never sees it.  The sequence number of a packet is its position on the  *)
(* wire, and `at` is where it starts: the number of bytes before it.  A    *)
(* reply is built as a sequence of frames with at = 0, and Layout places   *)
(* them.                                                                   *)
(***************************************************************************)
Frame(len, pre, fill, role) ==
    [len |-> len, pre |-> pre, fill |-> fill, role |-> role, at |-> 0]

PacketLen(f) == MYSQL_HEADER_LEN + f.len

\* Byte k (from 0) of the idx-th packet of the wire.
PacketByte(f, idx, k) ==
    CASE k = 0 -> f.len % 256
      [] k = 1 -> (f.len \div 256) % 256
      [] k = 2 -> (f.len \div 65536) % 256
      [] k = 3 -> idx % 256
      [] OTHER -> IF k - 4 < Len(f.pre) THEN f.pre[k - 3] ELSE f.fill

RECURSIVE LayoutFrom(_, _, _)
LayoutFrom(frames, idx, at) ==
    IF idx > Len(frames) THEN <<>>
    ELSE <<[frames[idx] EXCEPT !.at = at]>>
             \o LayoutFrom(frames, idx + 1, at + PacketLen(frames[idx]))

Layout(frames) == LayoutFrom(frames, 1, 0)

WireLen(w) == IF w = <<>> THEN 0 ELSE w[Len(w)].at + PacketLen(w[Len(w)])

\* The packet that holds byte pos (from 0) of the wire, for pos < WireLen(w).
RECURSIVE FrameOfFrom(_, _, _)
FrameOfFrom(w, idx, pos) ==
    IF pos < w[idx].at + PacketLen(w[idx]) THEN idx ELSE FrameOfFrom(w, idx + 1, pos)

FrameOf(w, pos) == FrameOfFrom(w, 1, pos)

\* Byte i (from 0) of the wire, for i < WireLen(w).
WireByte(w, i) ==
    LET idx == FrameOf(w, i) IN PacketByte(w[idx], idx, i - w[idx].at)

(***************************************************************************)
(* GWBUF (maxscale/buffer.h).  A buffer of server bytes is the range       *)
(* [from, to) of wire positions it holds; a buffer the filter allocates    *)
(* holds its own bytes.                                                    *)
(***************************************************************************)
NULL == [from |-> -1, to |-> -1, own |-> <<>>]

WireBuf(a, b) == [from |-> a, to |-> b, own |-> <<>>]

OwnBuf(bytes) == [from |-> 0, to |-> 0, own |-> bytes]

gwbuf_length(head) ==
    IF head = NULL THEN 0 ELSE (head.to - head.from) + Len(head.own)

\* tail holds the wire bytes that follow those of head.
gwbuf_append(head, tail) == [head EXCEPT !.to = tail.to]

\* Copies up to `bytes` bytes from `offset` on; what the buffer does not hold
\* is not written, and the destination keeps what was on the stack: g.
gwbuf_copy_data(buffer, offset, bytes, g) ==
    [k \in 1..bytes |->
        IF buffer # NULL /\ offset + k - 1 < gwbuf_length(buffer)
        THEN WireByte(wire, buffer.from + offset + k - 1)
        ELSE g]

\* a - b >= k in size_t arithmetic: a - b wraps around when b > a.
SizeDiffGE(a, b, k) == IF a >= b THEN a - b >= k ELSE TRUE

(***************************************************************************)
(* maxrows.c.  cs is the session data together with what the running call *)
(* has done: `up`, the buffers it has handed upstream; `freed`, the        *)
(* buffers it has freed; `rv`, its return value; `discard_row`, the value  *)
(* of n_rows at which the row limit set discard_resultset (0: never);      *)
(* `uninit`, whether it has used a byte of a header array that             *)
(* gwbuf_copy_data had not written.                                        *)
(***************************************************************************)
\* What up.clientReply returns.
UpstreamReturn == 1

\* How many bytes the buffer holds from the offset on.
Avail(buffer, offset) ==
    IF buffer = NULL \/ offset >= gwbuf_length(buffer) THEN 0
    ELSE gwbuf_length(buffer) - offset

\* The header array was read short: its length bytes are used when they were
\* not written, and the bytes after them once the packet is taken as complete.
Touch(cs, wanted, complete) ==
    IF Avail(cs.data, cs.offset) < MYSQL_HEADER_LEN
       \/ (complete /\ Avail(cs.data, cs.offset) < wanted)
    THEN [cs EXCEPT !.uninit = TRUE]
    ELSE cs

OkPacket == <<7, 0, 0, 1, 0, 0, 0, 2, 0, 0, 0>>

maxrows_response_state_reset(cs) ==
    [cs EXCEPT !.data = NULL, !.n_totalfields = U64Zero, !.n_fields = 0,
               !.n_rows = 0, !.offset = 0]

send_upstream(cs) ==
    [cs EXCEPT !.up = Append(@, cs.data), !.data = NULL, !.rv = UpstreamReturn]

\* gwbuf_free(NULL) frees nothing.
gwbuf_free(cs, buffer) ==
    IF buffer = NULL THEN cs ELSE [cs EXCEPT !.freed = Append(@, buffer)]

\* A substitution that sends the OK and keeps the buffered reply.
send_ok_upstream_keeping(cs) ==
    [cs EXCEPT !.up = Append(@, OwnBuf(OkPacket)), !.rv = UpstreamReturn]

send_ok_upstream(cs) ==
    [gwbuf_free(cs, cs.data)
        EXCEPT !.up = Append(@, OwnBuf(OkPacket)), !.data = NULL, !.rv = UpstreamReturn]

\* A row limit check that also discards a result set of exactly
\* max_resultset_rows rows.
check_max_rows_inclusive(cs) ==
    IF ~cs.discard_resultset /\ cs.n_rows >= config.max_resultset_rows
    THEN [cs EXCEPT !.discard_resultset = TRUE, !.discard_row = cs.n_rows]
    ELSE cs

\* The row limit check after a row packet (lines 842-855).
check_max_rows(cs) ==
    IF ~cs.discard_resultset /\ cs.n_rows > config.max_resultset_rows
    THEN [cs EXCEPT !.discard_resultset = TRUE, !.discard_row = cs.n_rows]
    ELSE cs

\* case 0xff of handle_rows.
rows_err(cs, packetlen) ==
    LET c1 == [cs EXCEPT !.offset = @ + packetlen, !.large_packet = FALSE]
        c2 == IF c1.discard_resultset THEN send_ok_upstream(c1) ELSE send_upstream(c1)
    IN  [c2 EXCEPT !.state = MAXROWS_EXPECTING_NOTHING]

\* An EOF case that starts the next result set with discard_resultset cleared.
rows_eof_clearing(cs, packetlen, header) ==
    LET c1 == [cs EXCEPT !.offset = @ + packetlen]
        flags == gw_mysql_get_byte2(header, MAXROWS_MYSQL_EOF_PACKET_FLAGS_OFFSET + 1)
    IN  IF packetlen < MAXROWS_EOF_PACKET_LEN
        THEN [send_ok_upstream(c1) EXCEPT !.state = MAXROWS_EXPECTING_NOTHING]
        ELSE IF (flags \div SERVER_MORE_RESULTS_EXIST) % 2 = 0
        THEN [(IF c1.discard_resultset THEN send_ok_upstream(c1) ELSE send_upstream(c1))
                EXCEPT !.state = MAXROWS_EXPECTING_NOTHING]
        ELSE [c1 EXCEPT !.state = MAXROWS_EXPECTING_RESPONSE,
                        !.discard_resultset = FALSE]

\* An EOF case that treats a short EOF packet as the end of the result set:
\* the buffered reply is forwarded unless discard_resultset is set.
rows_eof_short_forwarded(cs, packetlen, header) ==
    LET c1 == [cs EXCEPT !.offset = @ + packetlen]
        flags == gw_mysql_get_byte2(header, MAXROWS_MYSQL_EOF_PACKET_FLAGS_OFFSET + 1)
    IN  IF packetlen < MAXROWS_EOF_PACKET_LEN
           \/ (flags \div SERVER_MORE_RESULTS_EXIST) % 2 = 0
        THEN [(IF c1.discard_resultset THEN send_ok_upstream(c1) ELSE send_upstream(c1))
                EXCEPT !.state = MAXROWS_EXPECTING_NOTHING]
        ELSE [c1 EXCEPT !.state = MAXROWS_EXPECTING_RESPONSE]

\* case 0xfe of handle_rows.
rows_eof(cs, packetlen, header) ==
    LET c1 == [cs EXCEPT !.offset = @ + packetlen]
        flags == gw_mysql_get_byte2(header, MAXROWS_MYSQL_EOF_PACKET_FLAGS_OFFSET + 1)
    IN  IF packetlen < MAXROWS_EOF_PACKET_LEN
        THEN [send_ok_upstream(c1) EXCEPT !.state = MAXROWS_EXPECTING_NOTHING]
        ELSE IF (flags \div SERVER_MORE_RESULTS_EXIST) % 2 = 0
        THEN [(IF c1.discard_resultset THEN send_ok_upstream(c1) ELSE send_upstream(c1))
                EXCEPT !.state = MAXROWS_EXPECTING_NOTHING]
        ELSE [c1 EXCEPT !.state = MAXROWS_EXPECTING_RESPONSE]

\* default case of handle_rows: a row.
rows_row(cs, packetlen) ==
    LET c1 == [cs EXCEPT !.offset = @ + packetlen]
        c2 == IF ~c1.large_packet THEN [c1 EXCEPT !.n_rows = @ + 1] ELSE c1
    IN  check_max_rows(c2)

\* The while loop of handle_rows; buflen was read once, before the loop.
RECURSIVE handle_rows_loop(_, _, _)
handle_rows_loop(cs0, buflen, g) ==
    IF ~SizeDiffGE(buflen, cs0.offset, MYSQL_HEADER_LEN) THEN cs0
    ELSE
    LET pending_large_data == cs0.large_packet
        header == gwbuf_copy_data(cs0.data, cs0.offset, MAXROWS_EOF_PACKET_LEN, g)
        packetlen == MYSQL_HEADER_LEN + MYSQL_GET_PAYLOAD_LEN(header)
        cs == Touch(cs0, MAXROWS_EOF_PACKET_LEN, cs0.offset + packetlen <= buflen)
    IN  IF ~(cs.offset + packetlen <= buflen) THEN cs
        ELSE IF pending_large_data /\ packetlen >= MYSQL_HEADER_LEN
                                  /\ packetlen < MAXROWS_EOF_PACKET_LEN
        THEN [cs EXCEPT !.offset = @ + packetlen, !.n_rows = @ + 1]
        ELSE IF packetlen = MYSQL_PACKET_LENGTH_MAX + MYSQL_HEADER_LEN
        THEN [cs EXCEPT !.large_packet = TRUE, !.offset = @ + packetlen]
        ELSE
        LET c1 == [cs EXCEPT !.large_packet = FALSE]
            command == MYSQL_GET_COMMAND(header)
        IN  CASE command = 255 -> handle_rows_loop(rows_err(c1, packetlen), buflen, g)
              [] command = 254 -> handle_rows_loop(rows_eof(c1, packetlen, header), buflen, g)
              [] OTHER -> handle_rows_loop(rows_row(c1, packetlen), buflen, g)

handle_rows(cs, g) == handle_rows_loop(cs, gwbuf_length(cs.data), g)

\* The while loop of handle_expecting_fields.
RECURSIVE handle_expecting_fields_loop(_, _, _)
handle_expecting_fields_loop(cs0, buflen, g) ==
    IF ~SizeDiffGE(buflen, cs0.offset, MYSQL_HEADER_LEN) THEN cs0
    ELSE
    LET header == gwbuf_copy_data(cs0.data, cs0.offset, MYSQL_HEADER_LEN + 1, g)
        packetlen == MYSQL_HEADER_LEN + MYSQL_GET_PAYLOAD_LEN(header)
        cs == Touch(cs0, MYSQL_HEADER_LEN + 1, cs0.offset + packetlen <= buflen)
    IN  IF ~(cs.offset + packetlen <= buflen) THEN cs
        ELSE IF MYSQL_GET_COMMAND(header) = 254
        THEN handle_expecting_fields_loop(
                 handle_rows([cs EXCEPT !.offset = @ + packetlen,
                                        !.state = MAXROWS_EXPECTING_ROWS], g),
                 buflen, g)
        ELSE handle_expecting_fields_loop(
                 [cs EXCEPT !.offset = @ + packetlen, !.n_fields = @ + 1], buflen, g)

handle_expecting_fields(cs, g) ==
    handle_expecting_fields_loop(cs, gwbuf_length(cs.data), g)

\* A handle_expecting_nothing that goes on to IGNORING_RESPONSE.
handle_expecting_nothing_ignoring(cs) ==
    [send_upstream(cs) EXCEPT !.state = MAXROWS_IGNORING_RESPONSE]

handle_expecting_nothing(cs) == send_upstream(cs)

handle_ignoring_response(cs) == send_upstream(cs)

\* The result set header: the default case of handle_expecting_response.
response_resultset(cs, buflen, header, g) ==
    LET n_bytes == mxs_leint_bytes(SubSeq(header, MYSQL_HEADER_LEN + 1, MYSQL_HEADER_LEN + 1))
    IN  IF MYSQL_HEADER_LEN + n_bytes <= buflen
        THEN LET more == gwbuf_copy_data(cs.data, MYSQL_HEADER_LEN + 1, n_bytes - 1, g)
                 leint == <<header[MYSQL_HEADER_LEN + 1]>> \o more
             IN  handle_expecting_fields(
                     [cs EXCEPT !.n_totalfields = mxs_leint_value(leint),
                                !.offset = @ + MYSQL_HEADER_LEN + n_bytes,
                                !.state = MAXROWS_EXPECTING_FIELDS], g)
        ELSE cs

\* A handle_expecting_response that goes to EXPECTING_NOTHING after it has
\* forwarded an OK or ERR packet.
handle_expecting_response_nothing(cs, g) ==
    LET buflen == gwbuf_length(cs.data)
        c00 == [cs EXCEPT !.n_fields = 0, !.n_totalfields = U64Zero,
                          !.large_packet = FALSE]
        c0 == IF buflen >= MYSQL_HEADER_LEN + 1
              THEN Touch(c00, MYSQL_HEADER_LEN + 1, TRUE) ELSE c00
    IN  IF buflen >= MYSQL_HEADER_LEN + 1
        THEN LET header == gwbuf_copy_data(c0.data, c0.offset, MYSQL_HEADER_LEN + 1, g)
                 command == MYSQL_GET_COMMAND(header)
             IN  CASE command = 0 \/ command = 255 ->
                        IF c0.discard_resultset
                        THEN [send_ok_upstream(c0) EXCEPT !.state = MAXROWS_EXPECTING_NOTHING]
                        ELSE [send_upstream(c0) EXCEPT !.state = MAXROWS_EXPECTING_NOTHING]
                   [] command = 251 ->
                        [send_upstream(c0) EXCEPT !.state = MAXROWS_IGNORING_RESPONSE]
                   [] OTHER -> response_resultset(c0, buflen, header, g)
        ELSE c0

handle_expecting_response(cs, g) ==
    LET buflen == gwbuf_length(cs.data)
        c00 == [cs EXCEPT !.n_fields = 0, !.n_totalfields = U64Zero,
                          !.large_packet = FALSE]
        c0 == IF buflen >= MYSQL_HEADER_LEN + 1
              THEN Touch(c00, MYSQL_HEADER_LEN + 1, TRUE) ELSE c00
    IN  IF buflen >= MYSQL_HEADER_LEN + 1
        THEN LET header == gwbuf_copy_data(c0.data, c0.offset, MYSQL_HEADER_LEN + 1, g)
                 command == MYSQL_GET_COMMAND(header)
             IN  CASE command = 0 \/ command = 255 ->
                        IF c0.discard_resultset
                        THEN [send_ok_upstream(c0) EXCEPT !.state = MAXROWS_EXPECTING_NOTHING]
                        ELSE [send_upstream(c0) EXCEPT !.state = MAXROWS_IGNORING_RESPONSE]
                   [] command = 251 ->
                        [send_upstream(c0) EXCEPT !.state = MAXROWS_IGNORING_RESPONSE]
                   [] OTHER -> response_resultset(c0, buflen, header, g)
        ELSE c0

\* A size check that is made in every state.
size_guard_always(cs) ==
    IF ~cs.discard_resultset /\ gwbuf_length(cs.data) > config.max_resultset_size
    THEN [cs EXCEPT !.discard_resultset = TRUE]
    ELSE cs

\* The size check of clientReply (lines 346-363).
size_guard(cs) ==
    IF cs.state # MAXROWS_IGNORING_RESPONSE /\ ~cs.discard_resultset
       /\ gwbuf_length(cs.data) > config.max_resultset_size
    THEN [cs EXCEPT !.discard_resultset = TRUE]
    ELSE cs

\* The switch of clientReply.
dispatch(cs, g) ==
    CASE cs.state = MAXROWS_EXPECTING_FIELDS -> handle_expecting_fields(cs, g)
      [] cs.state = MAXROWS_EXPECTING_NOTHING -> handle_expecting_nothing(cs)
      [] cs.state = MAXROWS_EXPECTING_RESPONSE -> handle_expecting_response(cs, g)
      [] cs.state = MAXROWS_EXPECTING_ROWS -> handle_rows(cs, g)
      [] cs.state = MAXROWS_IGNORING_RESPONSE -> handle_ignoring_response(cs)

\* clientReply up to the switch: the new data is appended to what is pending.
reply_append(cs, data) ==
    [cs EXCEPT !.data = IF cs.data # NULL THEN gwbuf_append(cs.data, data) ELSE data]

clientReply(cs, data, g) == dispatch(size_guard(reply_append(cs, data)), g)

(***************************************************************************)
(* routeQuery (lines 285-321).  command is the command byte of the packet, *)
(* down_rv what down.routeQuery returns.                                   *)
(***************************************************************************)
\* A routeQuery that leaves discard_resultset and the counters as they were.
routeQuery_stale(cs, command) ==
    LET c1 == [cs EXCEPT !.data = NULL, !.state = MAXROWS_IGNORING_RESPONSE]
    IN  IF command = MYSQL_COM_QUERY \/ command = MYSQL_COM_STMT_EXECUTE
        THEN [c1 EXCEPT !.state = MAXROWS_EXPECTING_RESPONSE]
        ELSE c1

routeQuery(cs, command) ==
    LET c1 == [maxrows_response_state_reset(cs)
                 EXCEPT !.state = MAXROWS_IGNORING_RESPONSE,
                        !.large_packet = FALSE,
                        !.discard_resultset = FALSE]
    IN  IF command = MYSQL_COM_QUERY \/ command = MYSQL_COM_STMT_EXECUTE
        THEN [c1 EXCEPT !.state = MAXROWS_EXPECTING_RESPONSE]
        ELSE c1

\* maxrows_session_data_free (lines 474-480): the structure is released; the
\* GWBUF that res.data points to is not touched and stays allocated.
maxrows_session_data_free(cs) ==
    [cs EXCEPT !.state = SESSION_FREED]

\* maxrows_session_data_create: MXS_CALLOC zeroes the structure.
maxrows_session_data_create ==
    [state |-> MAXROWS_EXPECTING_NOTHING, data |-> NULL, n_totalfields |-> U64Zero,
     n_fields |-> 0, n_rows |-> 0, offset |-> 0, large_packet |-> FALSE,
     discard_resultset |-> FALSE]

(***************************************************************************)
(* The server's replies.                                                   *)
(***************************************************************************)
SERVER_STATUS_AUTOCOMMIT == 2

StatusBytes(status) == <<status % 256, status \div 256>>

OkFrame(status) == Frame(7, <<0, 0, 0>> \o StatusBytes(status) \o <<0, 0>>, 0, "ok")

ErrFrame == Frame(46, <<255, 40, 4, 35, 52, 50, 48, 48, 48>>, 101, "err")

LocalInfileFrame == Frame(9, <<251>>, 102, "infile")

HeaderFrame(n_fields) == Frame(1, <<n_fields>>, 0, "header")

\* A header whose column count is a length-encoded integer of three bytes:
\* 0xfc and the count in two bytes.
WideHeaderFrame(n_fields) ==
    Frame(3, <<252, n_fields % 256, n_fields \div 256>>, 0, "header")

FieldFrame == Frame(22, <<3, 100, 101, 102>>, 97, "field")

EofFrame(status) == Frame(5, <<254, 0, 0>> \o StatusBytes(status), 0, "eof")

\* A row is a sequence of frames: one, or several for a row of 16 MiB or more.
LargeFrame == Frame(MYSQL_PACKET_LENGTH_MAX, <<253, 255, 255, 255>>, 120, "rowpart")

LastFrame(len, first) ==
    Frame(len, IF len = 0 THEN <<>> ELSE <<first>>, 120, "rowend")

Row(kind) ==
    CASE kind = "long" -> <<Frame(12, <<11>>, 97, "row")>>
      [] kind = "short" -> <<Frame(2, <<1, 97>>, 97, "row")>>
      [] kind = "null" -> <<Frame(1, <<251>>, 0, "row")>>
      [] kind = "large0" -> <<LargeFrame, LastFrame(0, 0)>>
      [] kind = "large3" -> <<LargeFrame, LastFrame(3, 120)>>
      [] kind = "large50" -> <<LargeFrame, LastFrame(50, 120)>>
      [] kind = "large50eof" -> <<LargeFrame, LastFrame(50, 254)>>
      [] kind = "large50err" -> <<LargeFrame, LastFrame(50, 255)>>
      [] kind = "large2x0" -> <<LargeFrame, LargeFrame, LastFrame(0, 0)>>

OrdinaryKinds == {"long", "short", "null"}

LargeKinds == {"large0", "large3", "large50", "large50eof", "large50err", "large2x0"}

RECURSIVE Rows(_)
Rows(kinds) == IF kinds = <<>> THEN <<>> ELSE Row(Head(kinds)) \o Rows(Tail(kinds))

Repeat(x, n) == [k \in 1..n |-> x]

\* The rows of a result set: up to MaxRows rows of one ordinary kind, or one
\* large row, after no row or one, and before no row or one.
RowKindSeqs ==
    {Repeat(k, n) : k \in OrdinaryKinds, n \in 0..MaxRows}
    \cup {before \o <<l>> \o after :
             before \in {<<>>, <<"long">>}, l \in LargeKinds,
             after \in {<<>>, <<"short">>, <<"long">>}}

Status(more) ==
    SERVER_STATUS_AUTOCOMMIT + (IF more THEN SERVER_MORE_RESULTS_EXIST ELSE 0)

ResultSet(n_fields, kinds, more) ==
    <<HeaderFrame(n_fields)>> \o Repeat(FieldFrame, n_fields) \o <<EofFrame(Status(more))>>
        \o Rows(kinds) \o <<EofFrame(Status(more))>>

\* An EOF packet shorter than MAXROWS_EOF_PACKET_LEN: 0xfe alone.
ShortEofFrame == Frame(1, <<254>>, 0, "shorteof")

\* A result set whose rows end with the short EOF packet.
ShortEofResultSet(n_fields, kinds) ==
    <<HeaderFrame(n_fields)>> \o Repeat(FieldFrame, n_fields)
        \o <<EofFrame(Status(FALSE))>> \o Rows(kinds) \o <<ShortEofFrame>>

\* A result set that carries one field packet more than its header declares.
ExtraFieldResultSet(n_fields, kinds) ==
    <<HeaderFrame(n_fields)>> \o Repeat(FieldFrame, n_fields + 1)
        \o <<EofFrame(Status(FALSE))>> \o Rows(kinds) \o <<EofFrame(Status(FALSE))>>

\* A result set without rows whose header holds the column count in three
\* bytes.
WideResultSet(n_fields, more) ==
    <<WideHeaderFrame(n_fields)>> \o Repeat(FieldFrame, n_fields)
        \o <<EofFrame(Status(more)), EofFrame(Status(more))>>

\* A result set whose rows end with an error.
FailedResultSet(n_fields, kinds) ==
    <<HeaderFrame(n_fields)>> \o Repeat(FieldFrame, n_fields)
        \o <<EofFrame(Status(FALSE))>> \o Rows(kinds) \o <<ErrFrame>>

SingleReplies ==
    {<<OkFrame(SERVER_STATUS_AUTOCOMMIT)>>, <<ErrFrame>>, <<LocalInfileFrame>>}
    \cup {ResultSet(1, kinds, FALSE) : kinds \in RowKindSeqs}
    \cup {ResultSet(2, Repeat("long", n), FALSE) : n \in 0..MaxRows}
    \cup {FailedResultSet(1, Repeat("long", n)) : n \in 0..MaxRows}
    \cup {ShortEofResultSet(1, Repeat("long", n)) : n \in 0..MaxRows}
    \cup {ExtraFieldResultSet(1, <<"long">>)}

\* The numbers of rows of the two result sets of a multi-result-set reply.
MultiRowCounts == {<<0, 1>>, <<1, 0>>, <<1, 1>>}

\* "select ..; select ..": the last result set ends the reply.  CALL p():
\* every result set says that more follows, and an OK packet ends the reply.
MultiReplies ==
    {ResultSet(1, <<>>, TRUE) \o WideResultSet(1, FALSE),
     WideResultSet(1, TRUE) \o ResultSet(1, <<>>, FALSE)}
    \cup {ResultSet(1, Repeat("long", n[1]), TRUE) \o ResultSet(1, Repeat("long", n[2]), FALSE) :
        n \in MultiRowCounts}
    \cup {ResultSet(1, Repeat("long", n[1]), TRUE) \o ResultSet(1, Repeat("long", n[2]), TRUE)
            \o <<OkFrame(SERVER_STATUS_AUTOCOMMIT)>> :
        n \in MultiRowCounts}

Replies(command) ==
    IF command = MYSQL_COM_QUERY THEN SingleReplies \cup MultiReplies
    ELSE IF command = MYSQL_COM_STMT_EXECUTE
    THEN {<<OkFrame(SERVER_STATUS_AUTOCOMMIT)>>, ResultSet(1, <<"long">>, FALSE)}
    ELSE {<<OkFrame(SERVER_STATUS_AUTOCOMMIT)>>}

Commands == {MYSQL_COM_QUERY, MYSQL_COM_STMT_EXECUTE, MYSQL_COM_PING}

(***************************************************************************)
(* Where a chunk may end: 1..MaxCut bytes into a packet, and at its end.   *)
(***************************************************************************)
CutsOfFrame(f) ==
    {f.at + k : k \in {j \in 1..MaxCut : j < PacketLen(f)}} \cup {f.at + PacketLen(f)}

\* The ends the next chunk may have: a cut in the packet that comes next or in
\* the one after it, or the end of the reply.
NextCuts(w, from) ==
    IF from >= WireLen(w) THEN {}
    ELSE LET idx == FrameOf(w, from)
             near == CutsOfFrame(w[idx])
                     \cup (IF idx < Len(w) THEN CutsOfFrame(w[idx + 1]) ELSE {})
         IN  {c \in near : c > from} \cup {WireLen(w)}

\* What an uninitialised byte of the stack may hold.
Garbage == {0, 1, 251, 252, 254, 255}

(***************************************************************************)
(* rocksdbstorage.cc: RocksDBStorage::Get_key.  Names and SQL text are     *)
(* sequences of character codes.                                           *)
(***************************************************************************)
\* The '.' that strchr looks for.
DOT == 46

\* The default database: a C string, or NULL.
NullDb == [null |-> TRUE, name |-> <<>>]

DefaultDb(name) == [null |-> FALSE, name |-> name]

\* strchr(zTable, '.'): the position of the first '.', 0 when there is none.
strchr_dot(zTable) ==
    IF \E i \in DOMAIN zTable : zTable[i] = DOT
    THEN CHOOSE i \in DOMAIN zTable :
             zTable[i] = DOT /\ \A j \in 1..(i - 1) : zTable[j] # DOT
    ELSE 0

\* std::string's operator<: lexicographic on the characters.
RECURSIVE string_less(_, _)
string_less(a, b) ==
    IF b = <<>> THEN FALSE
    ELSE IF a = <<>> THEN TRUE
    ELSE IF Head(a) # Head(b) THEN Head(a) < Head(b)
    ELSE string_less(Tail(a), Tail(b))

\* The elements of a std::set<string> in the order of iteration.
RECURSIVE set_in_order(_)
set_in_order(dbs) ==
    IF dbs = {} THEN <<>>
    ELSE LET first == CHOOSE x \in dbs : \A y \in dbs \ {x} : string_less(x, y)
         IN  <<first>> \o set_in_order(dbs \ {first})

\* The loop over pzTables (lines 373-393): the databases the query names.
collect_dbs(zDefault_db, pzTables) ==
    {SubSeq(pzTables[i], 1, strchr_dot(pzTables[i]) - 1) :
        i \in {j \in DOMAIN pzTables : strchr_dot(pzTables[j]) # 0}}
    \cup (IF ~zDefault_db.null /\ \E i \in DOMAIN pzTables : strchr_dot(pzTables[i]) = 0
          THEN {zDefault_db.name} ELSE {})

\* tag.append(db) for each element of a sequence of names.
RECURSIVE append_all(_)
append_all(names) ==
    IF names = <<>> THEN <<>> ELSE Head(names) \o append_all(Tail(names))

\* The databases copied to a single string (lines 396-401).
make_tag(dbs) == append_all(set_in_order(dbs))

\* SHA512 of OpenSSL as an ideal hash: the digest stands for the data it was
\* computed from, and no digest is the block of zero bytes.
SHA512(data) == [hashed |-> TRUE, of |-> data]

\* SHA512_DIGEST_LENGTH bytes of zero.
ZeroDigest == [hashed |-> FALSE, of |-> <<>>]

\* memset(pKey->data, 0, CACHE_KEY_MAXLEN): the two halves of the key.
ZeroKey == <<ZeroDigest, ZeroDigest>>

CACHE_RESULT_OK == "CACHE_RESULT_OK"

\* A Get_key that appends the databases in the order the classifier names
\* their tables.
Get_key_in_classifier_order(zDefault_db, sql, pzTables) ==
    LET named == [i \in DOMAIN pzTables |->
                     IF strchr_dot(pzTables[i]) # 0
                     THEN SubSeq(pzTables[i], 1, strchr_dot(pzTables[i]) - 1)
                     ELSE IF zDefault_db.null THEN <<>> ELSE zDefault_db.name]
    IN  [result |-> CACHE_RESULT_OK,
         key |-> <<SHA512(append_all(named)), SHA512(sql)>>]

\* A Get_key that leaves the first half of the key zeroed when there is no
\* database to tag it with.
Get_key_zero_tag(zDefault_db, sql, pzTables) ==
    LET tag == make_tag(collect_dbs(zDefault_db, pzTables))
    IN  [result |-> CACHE_RESULT_OK,
         key |-> <<IF tag = <<>> THEN ZeroDigest ELSE SHA512(tag), SHA512(sql)>>]

\* RocksDBStorage::Get_key (lines 365-424); sql is what modutil_extract_SQL
\* finds in the query packet.
Get_key(zDefault_db, sql, pzTables) ==
    LET tag == make_tag(collect_dbs(zDefault_db, pzTables))
        zeroed == ZeroKey
        first == [zeroed EXCEPT ![1] = SHA512(tag)]
        both == [first EXCEPT ![2] = SHA512(sql)]
    IN  [result |-> CACHE_RESULT_OK, key |-> both]

\* The names and queries that are tried.
db0 == <<100, 98, 48>>
db1 == <<100, 98, 49>>
db2 == <<100, 98, 50>>
db9 == <<100, 98, 57>>

\* "db0db1": the names of two databases, one after the other.
db01 == db0 \o db1

DbNames == {db0, db1, db2, db9, db01}

\* "t", and "db.t" for each database.
BareTable == <<116>>

Qualified(db) == db \o <<DOT>> \o BareTable

TableNames == {BareTable} \cup {Qualified(db) : db \in DbNames}

RECURSIVE SeqsUpTo(_, _)
SeqsUpTo(S, n) ==
    IF n = 0 THEN {<<>>}
    ELSE LET shorter == SeqsUpTo(S, n - 1)
         IN  shorter \cup {Append(q, x) : q \in shorter, x \in S}

TableLists == SeqsUpTo(TableNames, MaxTables)

DefaultDbs == {NullDb, DefaultDb(db0), DefaultDb(db9)}

\* "SELECT 1" and "select 1".
Queries ==
    {<<83, 69, 76, 69, 67, 84, 32, 49>>, <<115, 101, 108, 101, 99, 116, 32, 49>>}

NoKeyCall == [called |-> FALSE]

(***************************************************************************)
(* rocksdbstorage.cc: get_value, put_value and del_value.  The database is *)
(* a rocksdb::DBWithTTL: Put appends the time of the write to the value as *)
(* 4 bytes, and a Get on the root database returns the value with them.    *)
(***************************************************************************)
CACHE_RESULT_NOT_FOUND == "CACHE_RESULT_NOT_FOUND"

CACHE_RESULT_OUT_OF_RESOURCES == "CACHE_RESULT_OUT_OF_RESOURCES"

CACHE_RESULT_ERROR == "CACHE_RESULT_ERROR"

CACHE_RESULT_STALE == "CACHE_RESULT_STALE"

CACHE_FLAGS_NONE == {}

CACHE_FLAGS_INCLUDE_STALE == {"CACHE_FLAGS_INCLUDE_STALE"}

\* RocksDBInternals::TS_LENGTH
TS_LENGTH == 4

\* The 4 bytes DBWithTTL appends for the time t, little-endian.
EncodeFixed32(t) ==
    <<t % 256, (t \div 256) % 256, (t \div 65536) % 256, (t \div 16777216) % 256>>

\* RocksDBInternals::extract_timestamp: the last TS_LENGTH bytes of the value.
extract_timestamp(value) ==
    LET ts == SubSeq(value, Len(value) - TS_LENGTH + 1, Len(value))
    IN  ts[1] + 256 * ts[2] + 65536 * ts[3] + 16777216 * ts[4]

\* What is stored under a key: nothing, or the bytes of a value.
NoEntry == [stored |-> FALSE, value |-> <<>>]

Entry(value) == [stored |-> TRUE, value |-> value]

\* rocksdb: Get, Put and Delete when they return the status OK or NotFound.
rocksdb_Get(db, key) == db[key]

rocksdb_Put(db, key, value, time) ==
    [db EXCEPT ![key] = Entry(value \o EncodeFixed32(time))]

rocksdb_Delete(db, key) == [db EXCEPT ![key] = NoEntry]

\* A GWBUF** that was not set.
NoValue == [null |-> TRUE, bytes |-> <<>>]

\* An age test that takes an entry of exactly the TTL's age for too old.
Older_or_as_old(clock_ok, now, timestamp, ttl) ==
    IF clock_ok THEN now - timestamp >= ttl ELSE TRUE

\* now - timestamp > ttl, where now is INT64_MAX when the clock could not be
\* read: then it is true for every timestamp from 0 and every ttl of 32 bits.
Older(clock_ok, now, timestamp, ttl) ==
    IF clock_ok THEN now - timestamp > ttl ELSE TRUE

\* A get_value that looks at the soft TTL first.
get_value_soft_first(st, key, flags, env) ==
    LET value == rocksdb_Get(st.db, key)
        erred == [db |-> st.db, result |-> {CACHE_RESULT_ERROR}, pResult |-> NoValue]
    IN  IF ~env.get_ok THEN erred
        ELSE IF ~value.stored
        THEN [db |-> st.db, result |-> {CACHE_RESULT_NOT_FOUND}, pResult |-> NoValue]
        ELSE IF Len(value.value) < TS_LENGTH THEN erred
        ELSE
        LET timestamp == extract_timestamp(value.value)
            is_hard_stale == IF st.config.hard_ttl = 0 THEN FALSE
                             ELSE Older(env.clock_ok, st.now, timestamp, st.config.hard_ttl)
            is_soft_stale == IF st.config.soft_ttl = 0 THEN FALSE
                             ELSE Older(env.clock_ok, st.now, timestamp, st.config.soft_ttl)
            include_stale == flags \cap CACHE_FLAGS_INCLUDE_STALE # {}
            length == Len(value.value) - TS_LENGTH
        IN  IF is_soft_stale /\ ~include_stale
            THEN [db |-> st.db, result |-> {CACHE_RESULT_NOT_FOUND, CACHE_RESULT_STALE},
                  pResult |-> NoValue]
            ELSE IF is_hard_stale
            THEN [db |-> IF env.delete_ok THEN rocksdb_Delete(st.db, key) ELSE st.db,
                  result |-> {CACHE_RESULT_NOT_FOUND}, pResult |-> NoValue]
            ELSE IF env.alloc_ok
            THEN [db |-> st.db,
                  result |-> {CACHE_RESULT_OK}
                             \cup (IF is_soft_stale THEN {CACHE_RESULT_STALE} ELSE {}),
                  pResult |-> [null |-> FALSE, bytes |-> SubSeq(value.value, 1, length)]]
            ELSE [db |-> st.db, result |-> {CACHE_RESULT_OUT_OF_RESOURCES},
                  pResult |-> NoValue]

\* RocksDBStorage::get_value (lines 457-542).  st is the storage: its config,
\* its database and its clock; env says which of the calls it makes succeed:
\* the Get, GetCurrentTime, the Delete and gwbuf_alloc.
get_value(st, key, flags, env) ==
    LET value == rocksdb_Get(st.db, key)
        erred == [db |-> st.db, result |-> {CACHE_RESULT_ERROR}, pResult |-> NoValue]
    IN  IF ~env.get_ok THEN erred
        ELSE IF ~value.stored
        THEN [db |-> st.db, result |-> {CACHE_RESULT_NOT_FOUND}, pResult |-> NoValue]
        ELSE IF Len(value.value) < TS_LENGTH THEN erred
        ELSE
        LET timestamp == extract_timestamp(value.value)
            is_hard_stale == IF st.config.hard_ttl = 0 THEN FALSE
                             ELSE Older(env.clock_ok, st.now, timestamp, st.config.hard_ttl)
            is_soft_stale == IF st.config.soft_ttl = 0 THEN FALSE
                             ELSE Older(env.clock_ok, st.now, timestamp, st.config.soft_ttl)
            include_stale == flags \cap CACHE_FLAGS_INCLUDE_STALE # {}
            length == Len(value.value) - TS_LENGTH
        IN  IF is_hard_stale
            THEN [db |-> IF env.delete_ok THEN rocksdb_Delete(st.db, key) ELSE st.db,
                  result |-> {CACHE_RESULT_NOT_FOUND}, pResult |-> NoValue]
            ELSE IF ~is_soft_stale \/ include_stale
            THEN IF env.alloc_ok
                 THEN [db |-> st.db,
                       result |-> {CACHE_RESULT_OK}
                                  \cup (IF is_soft_stale THEN {CACHE_RESULT_STALE} ELSE {}),
                       pResult |-> [null |-> FALSE, bytes |-> SubSeq(value.value, 1, length)]]
                 ELSE [db |-> st.db, result |-> {CACHE_RESULT_OUT_OF_RESOURCES},
                       pResult |-> NoValue]
            ELSE [db |-> st.db, result |-> {CACHE_RESULT_NOT_FOUND, CACHE_RESULT_STALE},
                  pResult |-> NoValue]

\* A put_value that keeps what is stored under the key.
put_value_if_absent(st, key, value, put_ok) ==
    IF put_ok
    THEN [db |-> IF st.db[key].stored THEN st.db
                 ELSE rocksdb_Put(st.db, key, value, st.now),
          result |-> {CACHE_RESULT_OK}]
    ELSE [db |-> st.db, result |-> {CACHE_RESULT_ERROR}]

\* RocksDBStorage::put_value (lines 544-554); put_ok is whether Put succeeds.
put_value(st, key, value, put_ok) ==
    IF put_ok
    THEN [db |-> rocksdb_Put(st.db, key, value, st.now), result |-> {CACHE_RESULT_OK}]
    ELSE [db |-> st.db, result |-> {CACHE_RESULT_ERROR}]

\* RocksDBStorage::del_value (lines 556-563).
del_value(st, key, delete_ok) ==
    IF delete_ok
    THEN [db |-> rocksdb_Delete(st.db, key), result |-> {CACHE_RESULT_OK}]
    ELSE [db |-> st.db, result |-> {CACHE_RESULT_ERROR}]

\* get_value up to its verdict (lines 464-486): the entry that Get returns
\* and whether it is taken for older than the hard TTL.
get_value_read(st, key, env) ==
    LET value == rocksdb_Get(st.db, key)
    IN  [value |-> value,
         is_hard_stale |->
             /\ env.get_ok
             /\ value.stored
             /\ Len(value.value) >= TS_LENGTH
             /\ st.config.hard_ttl # 0
             /\ Older(env.clock_ok, st.now, extract_timestamp(value.value),
                      st.config.hard_ttl)]

\* get_value from its verdict on when the entry was hard stale (lines
\* 488-496): whatever is under the key now is deleted.
get_value_delete(st, key, delete_ok) ==
    [db |-> IF delete_ok THEN rocksdb_Delete(st.db, key) ELSE st.db,
     result |-> {CACHE_RESULT_NOT_FOUND}]

\* The keys, values and configurations that are tried.  The keys are those of
\* the two queries, without tables and default database.
Keys == {Get_key(NullDb, sql, <<>>).key : sql \in Queries}

Values == {<<7>>, <<8, 9>>}

StorageConfigs == [hard_ttl : {0, 2}, soft_ttl : {0, 1}]

AllOk == [get_ok |-> TRUE, clock_ok |-> TRUE, delete_ok |-> TRUE, alloc_ok |-> TRUE]

\* At most one of the calls fails.
Envs ==
    {AllOk, [AllOk EXCEPT !.get_ok = FALSE], [AllOk EXCEPT !.clock_ok = FALSE],
     [AllOk EXCEPT !.delete_ok = FALSE], [AllOk EXCEPT !.alloc_ok = FALSE]}

NoStorageCall == [op |-> "none"]

NoStorage == [open |-> FALSE]

(***************************************************************************)
(* querylogfilter.c: the parameters.  Names and values are C strings, kept *)
(* as sequences of character codes.                                        *)
(***************************************************************************)
INT_MAX == 2147483647

INT_MIN == -2147483647 - 1

\* isspace and isdigit of the C locale.
isspace(c) == c \in {32, 9, 10, 11, 12, 13}

isdigit(c) == c \in 48..57

\* The digits at the start of str as a number: over says that it is above
\* INT_MAX, and min that it is INT_MAX + 1 exactly.
RECURSIVE digits_value(_, _)
digits_value(str, acc) ==
    IF str = <<>> \/ ~isdigit(Head(str)) THEN acc
    ELSE LET d == Head(str) - 48
             more == Tail(str) # <<>> /\ isdigit(Head(Tail(str)))
         IN  IF acc.over THEN acc
             ELSE IF acc.val > (INT_MAX - d) \div 10
             THEN [val |-> 0, over |-> TRUE,
                   min |-> acc.val = 214748364 /\ d = 8 /\ ~more]
             ELSE digits_value(Tail(str), [acc EXCEPT !.val = 10 * @ + d])

RECURSIVE skip_spaces(_)
skip_spaces(str) ==
    IF str # <<>> /\ isspace(Head(str)) THEN skip_spaces(Tail(str)) ELSE str

\* atoi of the C library: white space, a sign, digits.  defined is FALSE when
\* the number does not fit an int, which the C standard leaves undefined.
atoi(str) ==
    LET s1 == skip_spaces(str)
        neg == s1 # <<>> /\ Head(s1) = 45
        s2 == IF s1 # <<>> /\ Head(s1) \in {43, 45} THEN Tail(s1) ELSE s1
        n == digits_value(s2, [val |-> 0, over |-> FALSE, min |-> FALSE])
    IN  IF ~n.over THEN [defined |-> TRUE, val |-> IF neg THEN 0 - n.val ELSE n.val]
        ELSE IF neg /\ n.min THEN [defined |-> TRUE, val |-> INT_MIN]
        ELSE [defined |-> FALSE, val |-> 0]

\* The ints an atoi out of range may give.
Undefined == {INT_MIN, -1, 0, INT_MAX}

\* char* : NULL or a string; strdup gives a copy.
NullString == [null |-> TRUE, str |-> <<>>]

strdup(str) == [null |-> FALSE, str |-> str]

\* "filebase", "interval" and the name the unit test gives an unused parameter.
Name_filebase == <<102, 105, 108, 101, 98, 97, 115, 101>>

Name_interval == <<105, 110, 116, 101, 114, 118, 97, 108>>

Name_unknown == <<117, 110, 107, 110, 111, 119, 110>>

\* known_params of createInstance (lines 196-200); var names the field of the
\* instance that the parameter is stored to.
known_params ==
    <<[var |-> "filebase", type |-> "param_text", name |-> Name_filebase,
       mandatory |-> TRUE],
      [var |-> "loggingInterval", type |-> "param_natural_number",
       name |-> Name_interval, mandatory |-> FALSE]>>

\* The index of the first parameter of that name, 0 when there is none.
first_named(params, name) ==
    IF \E i \in DOMAIN params : params[i].name = name
    THEN CHOOSE i \in DOMAIN params :
             params[i].name = name /\ \A j \in 1..(i - 1) : params[j].name # name
    ELSE 0

\* parseParameters (lines 388-437) from the known parameter `from` on.  target
\* holds the variables the known parameters point to, and undef is the int
\* that an atoi out of range gives.
RECURSIVE parseParameters(_, _, _, _, _)
parseParameters(params, knownParams, from, target, undef) ==
    IF from > Len(knownParams) THEN [ok |-> TRUE, target |-> target]
    ELSE LET known_param == knownParams[from]
             i == first_named(params, known_param.name)
         IN  IF i = 0
             THEN IF known_param.mandatory THEN [ok |-> FALSE, target |-> target]
                  ELSE parseParameters(params, knownParams, from + 1, target, undef)
             ELSE IF known_param.type = "param_text"
             THEN parseParameters(params, knownParams, from + 1,
                      [target EXCEPT ![known_param.var] = strdup(params[i].value)], undef)
             ELSE LET a == atoi(params[i].value)
                      val == IF a.defined THEN a.val ELSE undef
                  IN  IF known_param.type = "param_number"
                      THEN parseParameters(params, knownParams, from + 1,
                               [target EXCEPT ![known_param.var] = val], undef)
                      ELSE IF val >= 0
                      THEN parseParameters(params, knownParams, from + 1,
                               [target EXCEPT ![known_param.var] = val], undef)
                      ELSE [ok |-> FALSE, target |-> target]

\* FILTER_PARAMETER** params: NULL or the parameters before the final NULL.
NullParams == [null |-> TRUE, list |-> <<>>]

\* No instance: the NULL that createInstance returns.
NullInstance == [null |-> TRUE]

\* createInstance (lines 175-213); malloced is whether malloc gave memory.
createInstance(params, malloced, undef) ==
    IF params.null THEN NullInstance
    ELSE IF ~malloced THEN NullInstance
    ELSE LET instance == [null |-> FALSE, filebase |-> NullString,
                          loggingInterval |-> 60, sessions |-> 0]
             parsed == parseParameters(params.list, known_params, 1, instance, undef)
         IN  IF ~parsed.ok THEN NullInstance ELSE parsed.target

\* The parameters that are tried.
FilebaseValues == {<<116, 101, 115, 116>>, <<>>}

IntervalValues ==
    {<<49, 48, 48, 48>>, <<48>>, <<45, 49>>, <<32, 43, 55>>, <<97, 98, 99>>,
     <<45, 50, 120>>, <<50, 49, 52, 55, 52, 56, 51, 54, 52, 55>>,
     <<50, 49, 52, 55, 52, 56, 51, 54, 52, 56>>,
     <<45, 50, 49, 52, 55, 52, 56, 51, 54, 52, 56>>,
     <<52, 50, 57, 52, 57, 54, 55, 50, 57, 54>>}

Parameters ==
    {[name |-> Name_filebase, value |-> v] : v \in FilebaseValues}
    \cup {[name |-> Name_interval, value |-> v] : v \in IntervalValues}
    \cup {[name |-> Name_unknown, value |-> <<>>]}

ParameterLists ==
    {NullParams} \cup {[null |-> FALSE, list |-> l] : l \in SeqsUpTo(Parameters, MaxParams)}

(***************************************************************************)
(* querylogfilter.c: newSession, in the steps that another thread can come *)
(* between.  A thread is [pc, filename, made]: where it is in newSession,  *)
(* the file name it has printed and the number of calls it has finished.   *)
(***************************************************************************)
\* sprintf's %d of a number from 0.
RECURSIVE decimal(_)
decimal(n) ==
    IF n < 10 THEN <<48 + n>> ELSE decimal(n \div 10) \o <<48 + (n % 10)>>

\* sprintf(session->filename, "%s.%d", instance->filebase, instance->sessions).
session_filename(instance) == instance.filebase.str \o <<DOT>> \o decimal(instance.sessions)

\* Lines 231-242: the session and its file name are allocated and the name is
\* printed from the session count as it is read now.
newSession_name(ql, t, alloc_ok) ==
    IF ~alloc_ok
    THEN [ql EXCEPT !.threads[t].made = @ + 1, !.returned = Append(@, NullString)]
    ELSE [ql EXCEPT !.threads[t].pc = "counting",
                    !.threads[t].filename = session_filename(ql.instance)]

\* Line 245: atomic_add(&(instance->sessions), 1).
newSession_count(ql, t) ==
    [ql EXCEPT !.threads[t].pc = "opening", !.instance.sessions = @ + 1]

\* Lines 247-262: the file is opened and the session returned, or NULL when the
\* file cannot be opened.
newSession_open(ql, t, fopen_ok) ==
    [ql EXCEPT !.threads[t].pc = "idle",
               !.threads[t].made = @ + 1,
               !.returned = Append(@, IF fopen_ok THEN strdup(ql.threads[t].filename)
                                      ELSE NullString)]

(***************************************************************************)
(* querylogfilter.c: the counters of a session and its log.  A session is  *)
(* [fp, timestamp, counters, counterBind, down]: fp is the log file, the   *)
(* lines printed to it, each line the sequence of its comma separated      *)
(* fields; down is what the downstream component has been passed.          *)
(***************************************************************************)
tolower(c) == IF c >= 65 /\ c <= 90 THEN c + 32 ELSE c

\* The char at s[i] of a C string, the terminating 0 after its end.
CharAt(s, i) == IF i <= Len(s) THEN s[i] ELSE 0

\* strncasecmp(s1, s2, n) from the char i on: the difference of the first
\* chars that differ without their case, 0 when n chars or both strings end.
RECURSIVE strncasecmp_from(_, _, _, _)
strncasecmp_from(s1, s2, n, i) ==
    IF i > n THEN 0
    ELSE LET c1 == tolower(CharAt(s1, i))
             c2 == tolower(CharAt(s2, i))
         IN  IF c1 # c2 THEN c1 - c2
             ELSE IF c1 = 0 THEN 0
             ELSE strncasecmp_from(s1, s2, n, i + 1)

strncasecmp(s1, s2, n) == strncasecmp_from(s1, s2, n, 1)

\* "select", "insert", "update" and "delete".
Type_select == <<115, 101, 108, 101, 99, 116>>

Type_insert == <<105, 110, 115, 101, 114, 116>>

Type_update == <<117, 112, 100, 97, 116, 101>>

Type_delete == <<100, 101, 108, 101, 116, 101>>

\* bindCounters (lines 548-555).
bindCounters(session) ==
    [session EXCEPT !.counterBind =
        <<[counter |-> "selectQuery", queryType |-> Type_select],
          [counter |-> "insertQuery", queryType |-> Type_insert],
          [counter |-> "updateQuery", queryType |-> Type_update],
          [counter |-> "deleteQuery", queryType |-> Type_delete]>>]

\* resetCounters (lines 536-540).
resetCounters(session) ==
    [session EXCEPT !.counters = [selectQuery |-> 0, insertQuery |-> 0,
                                  updateQuery |-> 0, deleteQuery |-> 0]]

\* updateCounters comparing as many chars as the query has, not as the type
\* has.
RECURSIVE updateCounters_strlen(_, _, _)
updateCounters_strlen(session, queryStr, counter_idx) ==
    IF counter_idx > Len(session.counterBind) THEN session
    ELSE LET counterBind == session.counterBind[counter_idx]
         IN  IF strncasecmp(counterBind.queryType, queryStr, Len(queryStr)) = 0
             THEN [session EXCEPT !.counters[counterBind.counter] = @ + 1]
             ELSE updateCounters_strlen(session, queryStr, counter_idx + 1)

\* updateCounters (lines 513-528) from the binding counter_idx on: the first
\* binding whose type begins the query has its counter incremented.
RECURSIVE updateCounters_from(_, _, _)
updateCounters_from(session, queryStr, counter_idx) ==
    IF counter_idx > Len(session.counterBind) THEN session
    ELSE LET counterBind == session.counterBind[counter_idx]
         IN  IF strncasecmp(counterBind.queryType, queryStr,
                            Len(counterBind.queryType)) = 0
             THEN [session EXCEPT !.counters[counterBind.counter] = @ + 1]
             ELSE updateCounters_from(session, queryStr, counter_idx + 1)

updateCounters(session, queryStr) == updateCounters_from(session, queryStr, 1)

\* Two decimal digits, as %d, %H, %M and %S of strftime print them.
pad2(n) == <<48 + ((n \div 10) % 10), 48 + (n % 10)>>

\* getTimestampAsDateTime (lines 447-454): "%F %T" of the local time, here
\* in UTC and for the January of 1970.
getTimestampAsDateTime(ts) ==
    <<49, 57, 55, 48, 45, 48, 49, 45>> \o pad2(1 + ts \div 86400) \o <<32>>
        \o pad2((ts % 86400) \div 3600) \o <<58>> \o pad2((ts % 3600) \div 60)
        \o <<58>> \o pad2(ts % 60)

\* writeLogIfNeeded without the test for a clock that has jumped back.
writeLogIfNeeded_nojump(session, loggingInterval, now) ==
    LET should_log == now >= session.timestamp + loggingInterval
    IN  IF ~should_log THEN session
        ELSE [resetCounters(session) EXCEPT
                 !.fp = Append(@, <<getTimestampAsDateTime(session.timestamp),
                                    getTimestampAsDateTime(now),
                                    decimal(session.counters.selectQuery),
                                    decimal(session.counters.insertQuery),
                                    decimal(session.counters.updateQuery),
                                    decimal(session.counters.deleteQuery)>>),
                 !.timestamp = now]

\* writeLogIfNeeded (lines 464-491); now is what time(NULL) returns.
writeLogIfNeeded(session, loggingInterval, now) ==
    LET should_log == now >= session.timestamp + loggingInterval
                          \/ session.timestamp > now
    IN  IF ~should_log THEN session
        ELSE [resetCounters(session) EXCEPT
                 !.fp = Append(@, <<getTimestampAsDateTime(session.timestamp),
                                    getTimestampAsDateTime(now),
                                    decimal(session.counters.selectQuery),
                                    decimal(session.counters.insertQuery),
                                    decimal(session.counters.updateQuery),
                                    decimal(session.counters.deleteQuery)>>),
                 !.timestamp = now]

\* passQueryDownstream (lines 500-504).
passQueryDownstream(session, queue) == [session EXCEPT !.down = Append(@, queue)]

\* routeQuery (lines 325-348).  query_str is what modutil_get_SQL gives for
\* the queue, with its whitespace squeezed and trimmed: NULL for a packet
\* that holds no SQL.
querylog_routeQuery(instance, session, queue, query_str, now) ==
    IF query_str.null
    THEN passQueryDownstream(session, queue)
    ELSE passQueryDownstream(
             writeLogIfNeeded(updateCounters(session, query_str.str),
                              instance.loggingInterval, now),
             queue)

\* closeSession that closes the file without writing the log.
closeSession_nowrite(session, now) ==
    IF session.open
    THEN [session EXCEPT !.open = FALSE]
    ELSE session

\* closeSession (lines 272-283): the log is written now and the file closed.
querylog_closeSession(session, now) ==
    IF session.open
    THEN [writeLogIfNeeded(session, 0, now) EXCEPT !.open = FALSE]
    ELSE session

\* "LogStart", "LogEnd", "SelectCount", "InsertCount", "UpdateCount" and
\* "DeleteCount": the line that newSession prints first (line 261).
LogHeader ==
    <<<<76, 111, 103, 83, 116, 97, 114, 116>>, <<76, 111, 103, 69, 110, 100>>,
      <<83, 101, 108, 101, 99, 116, 67, 111, 117, 110, 116>>,
      <<73, 110, 115, 101, 114, 116, 67, 111, 117, 110, 116>>,
      <<85, 112, 100, 97, 116, 101, 67, 111, 117, 110, 116>>,
      <<68, 101, 108, 101, 116, 101, 67, 111, 117, 110, 116>>>>

\* The session that newSession returns at the time now (lines 257-261).
newSession_init(now) ==
    resetCounters(
        [bindCounters([open |-> TRUE, fp |-> <<LogHeader>>, timestamp |-> 0,
                       counters |-> [selectQuery |-> 0, insertQuery |-> 0,
                                     updateQuery |-> 0, deleteQuery |-> 0],
                       counterBind |-> <<>>, down |-> <<>>])
         EXCEPT !.timestamp = now])

Threads == 1..MaxThreads

NoQuerylog == [phase |-> "none"]

(***************************************************************************)
(* The state machine.                                                      *)
(***************************************************************************)
\* No other component has been called.
KeyIdle == keycall = NoKeyCall

CodecIdle == codec = NoCodecCall

StorageIdle == storage = NoStorage

QuerylogIdle == querylog = NoQuerylog

OthersIdle == KeyIdle /\ CodecIdle /\ StorageIdle /\ QuerylogIdle

SizeLimits == {SmallSize, MidSize, BigSize}

NoCall ==
    [pre_state |-> "", pre_discard |-> FALSE, buflen |-> 0, guard_set |-> FALSE,
     n_up |-> 0]

NoHist == [discard_row |-> 0, size_discard |-> FALSE, freed |-> <<>>]

\* Every row limit without a size limit that matters, and every size limit.
Configs ==
    {[max_resultset_rows |-> r, max_resultset_size |-> BigSize] : r \in 0..MaxRowsLimit}
    \cup {[max_resultset_rows |-> MaxRowsLimit, max_resultset_size |-> s] : s \in SizeLimits}

Init ==
    /\ config \in Configs
    /\ csdata = maxrows_session_data_create
    /\ wire = <<>>
    /\ sent = 0
    /\ request = 0
    /\ upstream = <<>>
    /\ downstream = <<>>
    /\ rv = 0
    /\ last = NoCall
    /\ hist = NoHist
    /\ OthersIdle

\* A request arrives once the reply to the one before it has been delivered.
\* down_rv is what down.routeQuery returns.
RouteQuery(command, down_rv) ==
    /\ csdata.state # SESSION_FREED
    /\ sent = WireLen(wire)
    /\ csdata' = routeQuery(csdata, command)
    /\ request' = command
    /\ wire' = <<>>
    /\ sent' = 0
    /\ upstream' = <<>>
    /\ downstream' = <<[command |-> command, returned |-> down_rv]>>
    /\ rv' = down_rv
    /\ last' = NoCall
    /\ hist' = NoHist
    /\ UNCHANGED <<config, other_vars>>

\* The server decides what it replies to the request.
ServerReply(reply) ==
    /\ wire = <<>>
    /\ request # 0
    /\ wire' = Layout(reply)
    /\ UNCHANGED <<config, csdata, sent, request, upstream, downstream, rv, last, hist,
                   other_vars>>

\* clientReply on the next chunk, which ends at wire position `to`, with g
\* in the bytes of the stack that are read before they are written.
Reply(to, g) ==
    LET cs0 == csdata @@ [up |-> <<>>, freed |-> <<>>, rv |-> 1, uninit |-> FALSE,
                          discard_row |-> hist.discard_row]
        cs1 == size_guard(reply_append(cs0, WireBuf(sent, to)))
    IN  [cs |-> dispatch(cs1, g), buflen |-> gwbuf_length(cs1.data),
         guard_set |-> cs1.discard_resultset /\ ~csdata.discard_resultset]

\* The client receives a byte stream: a buffer of wire bytes that follow those
\* of the buffer before it is kept as one range with it.
RECURSIVE Received(_, _)
Received(stream, bufs) ==
    IF bufs = <<>> THEN stream
    ELSE LET b == Head(bufs)
             n == Len(stream)
         IN  IF n > 0 /\ b.own = <<>> /\ stream[n].own = <<>> /\ stream[n].to = b.from
             THEN Received([stream EXCEPT ![n].to = b.to], Tail(bufs))
             ELSE Received(Append(stream, b), Tail(bufs))

Delivered(to, r) ==
    /\ csdata' = [f \in DOMAIN csdata |-> r.cs[f]]
    /\ upstream' = Received(upstream, r.cs.up)
    /\ rv' = r.cs.rv
    /\ last' = [pre_state |-> csdata.state,
                pre_discard |-> csdata.discard_resultset,
                buflen |-> r.buflen,
                guard_set |-> r.guard_set,
                n_up |-> Len(r.cs.up)]
    /\ hist' = [discard_row |-> r.cs.discard_row,
                size_discard |-> hist.size_discard \/ r.guard_set,
                freed |-> hist.freed \o r.cs.freed]
    /\ sent' = to
    /\ downstream' = <<>>
    /\ UNCHANGED <<config, wire, request, other_vars>>

\* The next chunk of the reply is delivered.  The stack only matters to a call
\* that uses a byte it has not written.
ClientReply(to) ==
    LET r0 == Reply(to, 0)
    IN  IF r0.cs.uninit
        THEN \E g \in Garbage : Delivered(to, Reply(to, g))
        ELSE Delivered(to, r0)

\* freeSession (lines 240-246): the session is torn down, at any moment.  What
\* is left of it is the session data as maxrows_session_data_free leaves it.
FreeSession ==
    /\ csdata.state # SESSION_FREED
    /\ csdata' = maxrows_session_data_free(csdata)
    /\ request' = 0
    /\ wire' = <<>>
    /\ sent' = 0
    /\ upstream' = <<>>
    /\ downstream' = <<>>
    /\ rv' = 0
    /\ last' = NoCall
    /\ hist' = NoHist
    /\ UNCHANGED <<config, other_vars>>

Next ==
    \/ FreeSession
    \/ \E command \in Commands : \E down_rv \in {0, 1} : RouteQuery(command, down_rv)
    \/ \E reply \in Replies(request) : ServerReply(reply)
    \/ \E to \in NextCuts(wire, sent) : ClientReply(to)

Spec == Init /\ [][Next]_vars

(***************************************************************************)
(* The fingerprinter on its own: a caller holds a default database, a      *)
(* query and the classifier's output for it, and calls Get_key.            *)
(***************************************************************************)
\* No session of the maxrows filter is running.
MaxrowsIdle ==
    /\ config = [max_resultset_rows |-> 0, max_resultset_size |-> 0]
    /\ csdata = maxrows_session_data_create
    /\ wire = <<>>
    /\ sent = 0
    /\ request = 0
    /\ upstream = <<>>
    /\ downstream = <<>>
    /\ rv = 0
    /\ last = NoCall
    /\ hist = NoHist

InitKey ==
    /\ MaxrowsIdle
    /\ QuerylogIdle
    /\ CodecIdle
    /\ StorageIdle
    /\ \E zDefault_db \in DefaultDbs : \E sql \in Queries : \E pzTables \in TableLists :
           keycall = [called |-> FALSE, zDefault_db |-> zDefault_db, sql |-> sql,
                      pzTables |-> pzTables]

GetKey ==
    /\ ~keycall.called
    /\ keycall' = [called |-> TRUE, zDefault_db |-> keycall.zDefault_db,
                   sql |-> keycall.sql, pzTables |-> keycall.pzTables,
                   result |-> Get_key(keycall.zDefault_db, keycall.sql,
                                      keycall.pzTables).result,
                   key |-> Get_key(keycall.zDefault_db, keycall.sql,
                                   keycall.pzTables).key]
    /\ UNCHANGED <<maxrows_vars, codec, storage, querylog>>

NextKey == GetKey

SpecKey == InitKey /\ [][NextKey]_vars

(***************************************************************************)
(* The codec on its own: a caller holds a buffer and a pointer into it and *)
(* calls one function of mysql_utils.c.                                    *)
(***************************************************************************)
InitCodec ==
    /\ MaxrowsIdle
    /\ QuerylogIdle
    /\ KeyIdle
    /\ StorageIdle
    /\ codec \in CodecInputs

Returned(op, res) ==
    /\ codec.op = "none"
    /\ codec' = [codec EXCEPT !.op = op, !.res = res]
    /\ UNCHANGED <<maxrows_vars, keycall, storage, querylog>>

LeintBytes ==
    Returned("mxs_leint_bytes",
             [NoResult EXCEPT !.width = mxs_leint_bytes(At(codec.buf, codec.pos))])

LeintValue ==
    Returned("mxs_leint_value",
             [NoResult EXCEPT !.value = mxs_leint_value(At(codec.buf, codec.pos))])

LeintConsume ==
    LET r == mxs_leint_consume(codec.buf, codec.pos)
    IN  Returned("mxs_leint_consume", [NoResult EXCEPT !.value = r.rval, !.pos = r.pos])

LestrConsume ==
    /\ StringInside(codec.buf, codec.pos)
    /\ LET r == mxs_lestr_consume(codec.buf, codec.pos)
       IN  Returned("mxs_lestr_consume",
                    [NoResult EXCEPT !.start = r.start, !.size = r.size, !.pos = r.pos])

LestrConsumeDup(malloced) ==
    /\ StringInside(codec.buf, codec.pos)
    /\ LET r == mxs_lestr_consume_dup(codec.buf, codec.pos, malloced)
       IN  Returned("mxs_lestr_consume_dup",
                    [NoResult EXCEPT !.str = r.str, !.pos = r.pos])

NextCodec ==
    \/ LeintBytes
    \/ LeintValue
    \/ LeintConsume
    \/ LestrConsume
    \/ \E malloced \in BOOLEAN : LestrConsumeDup(malloced)

SpecCodec == InitCodec /\ [][NextCodec]_vars

(***************************************************************************)
(* The storage on its own: one RocksDBStorage, created with an empty       *)
(* database, and a caller that gets, puts and deletes values while time    *)
(* passes.  last is the latest call, and expired the keys for which a      *)
(* get_value found an entry older than the hard TTL and that were not put  *)
(* since; written is, for each key, the latest call that was to change     *)
(* what is stored under it.                                                *)
(***************************************************************************)
NotWritten == [by |-> "none", value |-> <<>>, time |-> 0]

InitStorage ==
    /\ MaxrowsIdle
    /\ QuerylogIdle
    /\ KeyIdle
    /\ CodecIdle
    /\ \E cfg \in StorageConfigs :
           storage = [open |-> TRUE, config |-> cfg, db |-> [k \in Keys |-> NoEntry],
                      now |-> 0, last |-> NoStorageCall, expired |-> {},
                      written |-> [k \in Keys |-> NotWritten]]

\* The entry under the key is older than the hard TTL.
PastHardTtl(st, key) ==
    /\ st.db[key].stored
    /\ st.config.hard_ttl > 0
    /\ st.now - extract_timestamp(st.db[key].value) > st.config.hard_ttl

GetValue(key, flags, env) ==
    /\ storage.open
    /\ LET r == get_value(storage, key, flags, env)
       IN  storage' = [storage EXCEPT
               !.db = r.db,
               !.last = [op |-> "get_value", key |-> key, flags |-> flags, env |-> env,
                         found |-> storage.db[key], now |-> storage.now,
                         result |-> r.result, pResult |-> r.pResult],
               !.expired = IF env.get_ok /\ PastHardTtl(storage, key)
                           THEN @ \cup {key} ELSE @,
               !.written[key] = IF r.db # storage.db
                                THEN [by |-> "get_value", value |-> <<>>, time |-> 0]
                                ELSE @]
    /\ UNCHANGED <<maxrows_vars, keycall, codec, querylog>>

PutValue(key, value, put_ok) ==
    /\ storage.open
    /\ LET r == put_value(storage, key, value, put_ok)
       IN  storage' = [storage EXCEPT
               !.db = r.db,
               !.last = [op |-> "put_value", key |-> key, value |-> value,
                         result |-> r.result],
               !.expired = @ \ {key},
               !.written[key] = IF r.result = {CACHE_RESULT_OK}
                                THEN [by |-> "put_value", value |-> value,
                                      time |-> storage.now]
                                ELSE @]
    /\ UNCHANGED <<maxrows_vars, keycall, codec, querylog>>

DelValue(key, delete_ok) ==
    /\ storage.open
    /\ LET r == del_value(storage, key, delete_ok)
       IN  storage' = [storage EXCEPT
               !.db = r.db,
               !.last = [op |-> "del_value", key |-> key, result |-> r.result],
               !.written[key] = IF r.result = {CACHE_RESULT_OK}
                                THEN [by |-> "del_value", value |-> <<>>, time |-> 0]
                                ELSE @]
    /\ UNCHANGED <<maxrows_vars, keycall, codec, querylog>>

\* A second passes.
Tick ==
    /\ storage.open
    /\ storage.now < MaxTime
    /\ storage' = [storage EXCEPT !.now = @ + 1]
    /\ UNCHANGED <<maxrows_vars, keycall, codec, querylog>>

NextStorage ==
    \/ \E key \in Keys : \E flags \in {CACHE_FLAGS_NONE, CACHE_FLAGS_INCLUDE_STALE} :
           \E env \in Envs : GetValue(key, flags, env)
    \/ \E key \in Keys : \E value \in Values : \E put_ok \in BOOLEAN :
           PutValue(key, value, put_ok)
    \/ \E key \in Keys : \E delete_ok \in BOOLEAN : DelValue(key, delete_ok)
    \/ Tick

SpecStorage == InitStorage /\ [][NextStorage]_vars

(***************************************************************************)
(* The parameters of the querylogfilter on their own: a caller holds a     *)
(* list of parameters and calls parseParameters as the unit test does, or  *)
(* createInstance.                                                         *)
(***************************************************************************)
InitParams ==
    /\ MaxrowsIdle
    /\ KeyIdle
    /\ CodecIdle
    /\ StorageIdle
    /\ \E params \in ParameterLists : \E undef \in Undefined :
           querylog = [phase |-> "params", op |-> "none", params |-> params,
                       undef |-> undef, malloced |-> TRUE, ok |-> FALSE,
                       target |-> [filebase |-> NullString, loggingInterval |-> 60],
                       instance |-> NullInstance]

\* AssertParameters of the unit test (lines 64-85): the variables start as a
\* buffer that is not a file base and the default 60.
ParseParameters ==
    /\ querylog.phase = "params"
    /\ querylog.op = "none"
    /\ ~querylog.params.null
    /\ LET r == parseParameters(querylog.params.list, known_params, 1,
                                querylog.target, querylog.undef)
       IN  querylog' = [querylog EXCEPT !.op = "parseParameters", !.ok = r.ok,
                                        !.target = r.target]
    /\ UNCHANGED <<maxrows_vars, keycall, codec, storage>>

CreateInstance(malloced) ==
    /\ querylog.phase = "params"
    /\ querylog.op = "none"
    /\ querylog' = [querylog EXCEPT
           !.op = "createInstance", !.malloced = malloced,
           !.instance = createInstance(querylog.params, malloced, querylog.undef)]
    /\ UNCHANGED <<maxrows_vars, keycall, codec, storage>>

NextParams ==
    \/ ParseParameters
    \/ \E malloced \in BOOLEAN : CreateInstance(malloced)

SpecParams == InitParams /\ [][NextParams]_vars

(***************************************************************************)
(* The sessions of one querylogfilter instance, created by threads that    *)
(* run at the same time.  returned holds, in the order of the returns, the *)
(* file name of each session that newSession returned, NULL for a call     *)
(* that returned no session.                                               *)
(***************************************************************************)
\* The instance of the unit test's TestNewInstance, with the file base "test".
TestInstance ==
    createInstance([null |-> FALSE,
                    list |-> <<[name |-> Name_filebase, value |-> <<116, 101, 115, 116>>],
                               [name |-> Name_interval, value |-> <<49>>]>>],
                   TRUE, 0)

InitSessions ==
    /\ MaxrowsIdle
    /\ KeyIdle
    /\ CodecIdle
    /\ StorageIdle
    /\ querylog = [phase |-> "sessions", instance |-> TestInstance,
                   threads |-> [t \in Threads |->
                                   [pc |-> "idle", filename |-> <<>>, made |-> 0]],
                   returned |-> <<>>]

NewSessionName(t, alloc_ok) ==
    /\ querylog.phase = "sessions"
    /\ querylog.threads[t].pc = "idle"
    /\ Len(querylog.returned)
           + Cardinality({u \in Threads : querylog.threads[u].pc # "idle"}) < MaxSessions
    /\ querylog' = newSession_name(querylog, t, alloc_ok)
    /\ UNCHANGED <<maxrows_vars, keycall, codec, storage>>

NewSessionCount(t) ==
    /\ querylog.phase = "sessions"
    /\ querylog.threads[t].pc = "counting"
    /\ querylog' = newSession_count(querylog, t)
    /\ UNCHANGED <<maxrows_vars, keycall, codec, storage>>

NewSessionOpen(t, fopen_ok) ==
    /\ querylog.phase = "sessions"
    /\ querylog.threads[t].pc = "opening"
    /\ querylog' = newSession_open(querylog, t, fopen_ok)
    /\ UNCHANGED <<maxrows_vars, keycall, codec, storage>>

NextSessions ==
    \E t \in Threads :
        \/ \E alloc_ok \in BOOLEAN : NewSessionName(t, alloc_ok)
        \/ NewSessionCount(t)
        \/ \E fopen_ok \in BOOLEAN : NewSessionOpen(t, fopen_ok)

SpecSessions == InitSessions /\ [][NextSessions]_vars

(***************************************************************************)
(* The storage with threads that call it at the same time.  put_value and  *)
(* del_value are one call of RocksDB each; get_value is a Get, a look at   *)
(* the clock and, for a hard stale entry, a Delete, and other calls can    *)
(* come between the two.  A getter is [pc, key, read]: where the thread is *)
(* in get_value, the key it asked for and the entry its Get returned.      *)
(***************************************************************************)
IdleGetter == [pc |-> "idle", key |-> ZeroKey, read |-> NoEntry, clock_ok |-> TRUE]

InitRace ==
    /\ MaxrowsIdle
    /\ QuerylogIdle
    /\ KeyIdle
    /\ CodecIdle
    /\ \E cfg \in StorageConfigs :
           storage = [open |-> TRUE, config |-> cfg, db |-> [k \in Keys |-> NoEntry],
                      now |-> 0, getters |-> [t \in Threads |-> IdleGetter]]

\* Thread t calls get_value: the Get and the verdict.  A call that does not
\* find a hard stale entry returns without touching the database again.
RaceGetValueRead(t, key, env) ==
    /\ "getters" \in DOMAIN storage
    /\ storage.getters[t].pc = "idle"
    /\ LET r == get_value_read(storage, key, env)
       IN  storage' = [storage EXCEPT
               !.getters[t] = IF r.is_hard_stale
                              THEN [pc |-> "delete", key |-> key, read |-> r.value,
                                    clock_ok |-> env.clock_ok]
                              ELSE IdleGetter]
    /\ UNCHANGED <<maxrows_vars, keycall, codec, querylog>>

\* Thread t goes on to the Delete and returns.
RaceGetValueDelete(t, delete_ok) ==
    /\ "getters" \in DOMAIN storage
    /\ storage.getters[t].pc = "delete"
    /\ storage' = [storage EXCEPT
           !.db = get_value_delete(storage, storage.getters[t].key, delete_ok).db,
           !.getters[t] = IdleGetter]
    /\ UNCHANGED <<maxrows_vars, keycall, codec, querylog>>

RacePutValue(key, value, put_ok) ==
    /\ "getters" \in DOMAIN storage
    /\ storage' = [storage EXCEPT !.db = put_value(storage, key, value, put_ok).db]
    /\ UNCHANGED <<maxrows_vars, keycall, codec, querylog>>

RaceDelValue(key, delete_ok) ==
    /\ "getters" \in DOMAIN storage
    /\ storage' = [storage EXCEPT !.db = del_value(storage, key, delete_ok).db]
    /\ UNCHANGED <<maxrows_vars, keycall, codec, querylog>>

RaceTick ==
    /\ "getters" \in DOMAIN storage
    /\ storage.now < MaxTime
    /\ storage' = [storage EXCEPT !.now = @ + 1]
    /\ UNCHANGED <<maxrows_vars, keycall, codec, querylog>>

NextRace ==
    \/ \E t \in Threads : \E key \in Keys : \E env \in Envs :
           RaceGetValueRead(t, key, env)
    \/ \E t \in Threads : \E delete_ok \in BOOLEAN : RaceGetValueDelete(t, delete_ok)
    \/ \E key \in Keys : \E value \in Values : \E put_ok \in BOOLEAN :
           RacePutValue(key, value, put_ok)
    \/ \E key \in Keys : \E delete_ok \in BOOLEAN : RaceDelValue(key, delete_ok)
    \/ RaceTick

SpecRace == InitRace /\ [][NextRace]_vars

(***************************************************************************)
(* querylogfilter.c: updateCounters and writeLogIfNeeded, called once with *)
(* a session that has counted and logged before, as the unit tests call    *)
(* them.  call is the call made: its arguments and the session before it.  *)
(***************************************************************************)
\* "seLecT 1", "SELECT;", "insert", "UPDATE t", "Delete", "selec", "show",
\* " select" and the empty string.
QueryStrings ==
    {<<115, 101, 76, 101, 99, 84, 32, 49>>, <<83, 69, 76, 69, 67, 84, 59>>,
     <<105, 110, 115, 101, 114, 116>>, <<85, 80, 68, 65, 84, 69, 32, 116>>,
     <<68, 101, 108, 101, 116, 101>>, <<115, 101, 108, 101, 99>>,
     <<115, 104, 111, 119>>, <<32, 115, 101, 108, 101, 99, 116>>, <<>>}

\* The logging intervals and the times of the clock, which can jump back.
Intervals == {0, 1, 2}

Times == 0..MaxTime

Counts == 0..MaxCount

NoCounterCall == [op |-> "none"]

InitCounters ==
    /\ MaxrowsIdle
    /\ KeyIdle
    /\ CodecIdle
    /\ StorageIdle
    /\ \E now \in Times : \E s, i, u, d \in Counts :
           querylog = [phase |-> "counters",
                       session |-> [newSession_init(now) EXCEPT
                                        !.counters = [selectQuery |-> s, insertQuery |-> i,
                                                      updateQuery |-> u, deleteQuery |-> d]],
                       call |-> NoCounterCall]

UpdateCounters(queryStr) ==
    /\ querylog.phase = "counters"
    /\ querylog.call = NoCounterCall
    /\ querylog' = [querylog EXCEPT
           !.session = updateCounters(@, queryStr),
           !.call = [op |-> "updateCounters", queryStr |-> queryStr,
                     session |-> querylog.session]]
    /\ UNCHANGED <<maxrows_vars, keycall, codec, storage>>

WriteLogIfNeeded(loggingInterval, now) ==
    /\ querylog.phase = "counters"
    /\ querylog.call = NoCounterCall
    /\ querylog' = [querylog EXCEPT
           !.session = writeLogIfNeeded(@, loggingInterval, now),
           !.call = [op |-> "writeLogIfNeeded", loggingInterval |-> loggingInterval,
                     now |-> now, session |-> querylog.session]]
    /\ UNCHANGED <<maxrows_vars, keycall, codec, storage>>

NextCounters ==
    \/ \E queryStr \in QueryStrings : UpdateCounters(queryStr)
    \/ \E loggingInterval \in Intervals : \E now \in Times :
           WriteLogIfNeeded(loggingInterval, now)

SpecCounters == InitCounters /\ [][NextCounters]_vars

(***************************************************************************)
(* querylogfilter.c: one session from newSession to closeSession.  A queue *)
(* is the string modutil_get_SQL finds in it, NULL for a packet without    *)
(* SQL; routed is the queues that routeQuery has been called with.         *)
(***************************************************************************)
Queues ==
    {strdup(str) : str \in {<<115, 101, 76, 101, 99, 84, 32, 49>>,
                            <<68, 101, 108, 101, 116, 101>>,
                            <<115, 104, 111, 119>>}}
    \cup {NullString}

InitLog ==
    /\ MaxrowsIdle
    /\ KeyIdle
    /\ CodecIdle
    /\ StorageIdle
    /\ \E now \in Times : \E loggingInterval \in Intervals :
           querylog = [phase |-> "log",
                       instance |-> [TestInstance EXCEPT
                                        !.loggingInterval = loggingInterval],
                       session |-> newSession_init(now), routed |-> <<>>]

LogRouteQuery(queue, now) ==
    /\ querylog.phase = "log"
    /\ querylog.session.open
    /\ Len(querylog.session.down) < MaxQueries
    /\ querylog' = [querylog EXCEPT
           !.session = querylog_routeQuery(querylog.instance, @, queue, queue, now),
           !.routed = Append(@, queue)]
    /\ UNCHANGED <<maxrows_vars, keycall, codec, storage>>

LogCloseSession(now) ==
    /\ querylog.phase = "log"
    /\ querylog.session.open
    /\ querylog' = [querylog EXCEPT !.session = querylog_closeSession(@, now)]
    /\ UNCHANGED <<maxrows_vars, keycall, codec, storage>>

NextLog ==
    \/ \E queue \in Queues : \E now \in Times : LogRouteQuery(queue, now)
    \/ \E now \in Times : LogCloseSession(now)

SpecLog == InitLog /\ [][NextLog]_vars

(***************************************************************************)
(* What the claims speak of.                                               *)
(***************************************************************************)
\* The last request asked for a reply that the filter watches.
Qualifying == request \in {MYSQL_COM_QUERY, MYSQL_COM_STMT_EXECUTE}

\* Every byte of the reply has been handed to clientReply.
Complete == wire # <<>> /\ sent = WireLen(wire)

\* The client has received exactly the server's bytes up to wire position `to`.
ReceivedWireUpTo(to) ==
    /\ Len(upstream) = 1
    /\ upstream[1] = [from |-> 0, to |-> to, own |-> <<>>]

\* The client has received exactly one synthetic OK packet.
ReceivedOnlyOk ==
    /\ Len(upstream) = 1
    /\ upstream[1] = [from |-> 0, to |-> 0, own |-> <<7, 0, 0, 1, 0, 0, 0, 2, 0, 0, 0>>]

\* C1: for a COM_QUERY or COM_STMT_EXECUTE and every split of the reply into
\* chunks, the client receives either the server's bytes, all of them once
\* the reply is complete, or exactly one synthetic OK packet: never server
\* bytes together with a synthetic OK, and never a proper prefix of the reply.
C1_EitherReplyOrOk ==
    Qualifying =>
        \/ upstream = <<>>
        \/ ReceivedOnlyOk
        \/ /\ ReceivedWireUpTo(upstream[1].to)
           /\ upstream[1].to \in 1..sent
           /\ Complete => upstream[1].to = WireLen(wire)

\* A session's data at the start of a call of clientReply.
Call(cs) ==
    cs @@ [up |-> <<>>, freed |-> <<>>, rv |-> 1, uninit |-> FALSE, discard_row |-> 0]

\* clientReply called once for each byte of the wire from `from` up to `to`,
\* in order: the first half of the bytes, then the second half.  A call that
\* returns 0 ends the session.
RECURSIVE FeedBytes(_, _, _, _)
FeedBytes(cs, from, to, g) ==
    IF to = from + 1 THEN clientReply(cs, WireBuf(from, to), g)
    ELSE LET mid == (from + to) \div 2
             half == FeedBytes(cs, from, mid, g)
         IN  IF half.rv = 0 THEN half ELSE FeedBytes(half, mid, to, g)

\* What C2 compares: the upstream output, the phase, n_rows and discard.
Outcome(cs) ==
    <<Received(<<>>, cs.up), cs.state, cs.n_rows, cs.discard_resultset>>

\* C2: a reply delivered to clientReply one byte at a time gives the same
\* upstream output, final phase, n_rows and discard as the same reply
\* delivered as a single chunk.
C2_ByteAtATimeAsSingleChunk ==
    (wire # <<>> /\ sent = 0 /\ WireLen(wire) <= MaxByteWise) =>
        \A g \in Garbage :
            Outcome(FeedBytes(Call(csdata), 0, WireLen(wire), g))
                = Outcome(clientReply(Call(csdata), WireBuf(0, WireLen(wire)), g))

\* The status flags of an EOF frame.
EofFlags(f) == gw_mysql_get_byte2(f.pre, 4)

MoreResults(f) == (EofFlags(f) \div SERVER_MORE_RESULTS_EXIST) % 2 = 1

\* The reply is one result set of ordinary row packets: a header, the field
\* definitions, an EOF, the rows, and an EOF without SERVER_MORE_RESULTS_EXIST.
PlainResultSet ==
    /\ Len(wire) >= 3
    /\ wire[1].role = "header"
    /\ \A i \in DOMAIN wire : wire[i].role \in {"header", "field", "eof", "row"}
    /\ Cardinality({i \in DOMAIN wire : wire[i].role = "eof"}) = 2
    /\ wire[Len(wire)].role = "eof"
    /\ ~MoreResults(wire[Len(wire)])

NumRows == Cardinality({i \in DOMAIN wire : wire[i].role = "row"})

\* C3: for one result set of ordinary rows ended by an EOF without
\* SERVER_MORE_RESULTS_EXIST, and a reply within max_resultset_size: with at
\* most max_resultset_rows rows the complete reply is forwarded unchanged;
\* with more, discard_resultset is first set on row max_resultset_rows + 1
\* and exactly the synthetic OK is sent.
C3_RowLimit ==
    (Qualifying /\ PlainResultSet /\ WireLen(wire) <= config.max_resultset_size) =>
        /\ csdata.discard_resultset => hist.discard_row = config.max_resultset_rows + 1
        /\ (Complete /\ NumRows <= config.max_resultset_rows) =>
               ReceivedWireUpTo(WireLen(wire)) /\ hist.discard_row = 0
        /\ (Complete /\ NumRows > config.max_resultset_rows) =>
               ReceivedOnlyOk /\ hist.discard_row = config.max_resultset_rows + 1

\* A result set of max_resultset_rows + 1 rows was answered with the OK, and
\* one of exactly max_resultset_rows >= 1 rows could be forwarded.
C3_Witness ==
    /\ Qualifying /\ PlainResultSet /\ Complete
    /\ WireLen(wire) <= config.max_resultset_size
    /\ \/ NumRows = config.max_resultset_rows + 1 /\ ReceivedOnlyOk
       \/ NumRows = config.max_resultset_rows /\ NumRows >= 1
            /\ ReceivedWireUpTo(WireLen(wire))

\* C4: in a call made while the state is not IGNORING_RESPONSE and
\* discard_resultset is false, the size check sets discard_resultset iff the
\* buffered length is greater than max_resultset_size; and a reply to a
\* COM_QUERY or COM_STMT_EXECUTE whose buffered bytes exceeded
\* max_resultset_size is answered with the synthetic OK alone.
C4_SizeGuard ==
    /\ (last.pre_state \notin {"", MAXROWS_IGNORING_RESPONSE} /\ ~last.pre_discard) =>
           (last.guard_set <=> last.buflen > config.max_resultset_size)
    /\ (Qualifying /\ Complete /\ hist.size_discard) => ReceivedOnlyOk

\* The logical rows of the reply that end at or before wire position pos.
RowsBefore(pos) ==
    Cardinality({i \in DOMAIN wire :
                    /\ wire[i].role \in {"row", "rowend"}
                    /\ wire[i].at + PacketLen(wire[i]) <= pos})

\* C5: in the row phase n_rows is the number of complete logical rows
\* received so far, a row split over frames of payload 0xFFFFFF and a
\* shorter final frame counting once.
C5_RowsCounted ==
    csdata.state = MAXROWS_EXPECTING_ROWS => csdata.n_rows = RowsBefore(sent)

\* The reply is one result set whose only row is a frame of payload 0xFFFFFF
\* followed by a final frame of no payload, or of 50 bytes that start with an
\* ordinary data byte; the limits allow one row and the whole reply.
LargeRowReply ==
    /\ Qualifying
    /\ wire \in {Layout(ResultSet(1, <<kind>>, FALSE)) : kind \in {"large0", "large50"}}
    /\ config.max_resultset_rows >= 1
    /\ WireLen(wire) <= config.max_resultset_size

\* Where the frame of the given role ends, for a role the wire has once.
EndOf(role) ==
    LET i == CHOOSE i \in DOMAIN wire : wire[i].role = role
    IN  wire[i].at + PacketLen(wire[i])

\* C6: once both frames of the large row have been delivered n_rows is 1 and
\* discard_resultset is false, and when the terminating EOF then arrives in a
\* later chunk the reply is forwarded unchanged.
C6_LargeRowOnce ==
    [][(LargeRowReply /\ sent' # sent) =>
          /\ sent' = EndOf("rowend") =>
                 csdata'.n_rows = 1 /\ ~csdata'.discard_resultset
          /\ (sent = EndOf("rowend") /\ sent' = WireLen(wire)) =>
                 upstream' = <<WireBuf(0, WireLen(wire))>>]_vars

\* C7: no call of clientReply clears discard_resultset; only the next
\* routeQuery does.
C7_DiscardSticky ==
    [][(csdata.discard_resultset /\ ~csdata'.discard_resultset) =>
          (downstream' # <<>> /\ wire' = <<>> /\ sent' = 0)]_vars

\* A call made with discard_resultset set has taken the filter from the rows
\* of one result set to the start of the next, discard_resultset still set.
C7_Witness ==
    /\ last.pre_discard
    /\ last.pre_state = MAXROWS_EXPECTING_ROWS
    /\ csdata.state = MAXROWS_EXPECTING_RESPONSE
    /\ csdata.discard_resultset

\* The reply has an EOF with SERVER_MORE_RESULTS_EXIST, and its rows and bytes
\* are within the limits.
MultiReply ==
    /\ Qualifying
    /\ \E i \in DOMAIN wire : wire[i].role = "eof" /\ MoreResults(wire[i])
    /\ \A i \in DOMAIN wire : wire[i].role \in {"header", "field", "eof", "row", "ok"}
    /\ NumRows <= config.max_resultset_rows
    /\ WireLen(wire) <= config.max_resultset_size

\* Frame i is the EOF that ends the rows of a result set that is not the last.
RowsEofWithMore(i) ==
    /\ wire[i].role = "eof"
    /\ MoreResults(wire[i])
    /\ Cardinality({j \in 1..i : wire[j].role = "eof"}) % 2 = 0

\* C8: when the EOF with SERVER_MORE_RESULTS_EXIST that ends the rows of a
\* result set has been consumed, nothing has been sent upstream, the reply is
\* still buffered whole and the state is EXPECTING_RESPONSE; once the final
\* packet has arrived the whole reply is forwarded, once and in order.
C8_MoreResults ==
    MultiReply =>
        /\ \A i \in DOMAIN wire :
              (RowsEofWithMore(i) /\ sent = wire[i].at + PacketLen(wire[i])) =>
                  /\ upstream = <<>>
                  /\ csdata.data = WireBuf(0, sent)
                  /\ csdata.state = MAXROWS_EXPECTING_RESPONSE
        /\ Complete => ReceivedWireUpTo(WireLen(wire))

\* C9: after routeQuery the packet has gone downstream once and its return
\* value is that of the downstream; for COM_QUERY and COM_STMT_EXECUTE the
\* state is EXPECTING_RESPONSE, the offset and the counters are zero, and
\* large_packet and discard_resultset are false; for any other command the
\* state is IGNORING_RESPONSE.
C9_RouteQueryResets ==
    downstream # <<>> =>
        /\ Len(downstream) = 1
        /\ downstream[1].command = request
        /\ rv = downstream[1].returned
        /\ Qualifying =>
              /\ csdata.state = MAXROWS_EXPECTING_RESPONSE
              /\ csdata.offset = 0
              /\ csdata.n_totalfields = <<0, 0, 0, 0, 0, 0, 0, 0>>
              /\ csdata.n_fields = 0
              /\ csdata.n_rows = 0
              /\ ~csdata.large_packet
              /\ ~csdata.discard_resultset
        /\ ~Qualifying => csdata.state = MAXROWS_IGNORING_RESPONSE

\* routeQuery has run on a COM_STMT_EXECUTE whose downstream returned 0, and
\* on another command.
C9_Witness ==
    /\ downstream # <<>>
    /\ \/ request = MYSQL_COM_STMT_EXECUTE /\ rv = 0
            /\ csdata.state = MAXROWS_EXPECTING_RESPONSE
       \/ request = MYSQL_COM_PING /\ csdata.state = MAXROWS_IGNORING_RESPONSE

\* C10: every buffer the filter makes itself and sends upstream is the 11
\* bytes 07 00 00 01 00 00 00 02 00 00 00; after a substitution nothing is
\* buffered; and no byte of a dropped buffer is ever forwarded.
C10_SyntheticOk ==
    /\ \A i \in DOMAIN upstream :
          upstream[i].own # <<>> =>
              upstream[i].own = <<7, 0, 0, 1, 0, 0, 0, 2, 0, 0, 0>>
    /\ (upstream # <<>> /\ upstream[Len(upstream)].own # <<>>) =>
          csdata.data = NULL
    /\ \A i \in DOMAIN hist.freed : \A j \in DOMAIN upstream :
          upstream[j].own = <<>> =>
              \/ upstream[j].to <= hist.freed[i].from
              \/ hist.freed[i].to <= upstream[j].from

\* A reply that ends with an ERR packet has been dropped and answered with
\* the OK.
C10_Witness ==
    /\ Complete
    /\ wire[Len(wire)].role = "err"
    /\ hist.freed = <<WireBuf(0, WireLen(wire))>>
    /\ ReceivedOnlyOk

\* The phases in which a reply is being parsed.
Parsing ==
    {MAXROWS_EXPECTING_RESPONSE, MAXROWS_EXPECTING_FIELDS, MAXROWS_EXPECTING_ROWS}

\* C11: within one response the offset never decreases from one call of
\* clientReply to the next, and a call that forwards the reply or sends the
\* synthetic OK while parsing leaves the offset at the length of what was
\* buffered.
C11_CursorAtSend ==
    /\ []((last.pre_state \in Parsing /\ last.n_up > 0) =>
              csdata.offset = last.buflen)
    /\ [][(sent' > sent) => csdata'.offset >= csdata.offset]_vars

\* C12: while a reply is being parsed the offset lies within the buffered
\* bytes, so the count of remaining bytes does not wrap around.
C12_CursorInPending ==
    csdata.state \in Parsing =>
        (0 <= csdata.offset /\ csdata.offset <= gwbuf_length(csdata.data))

\* The buffers of a sequence.
Buffers(bufs) == {bufs[i] : i \in DOMAIN bufs}

\* C13: the buffered reply is handed upstream or freed, never both, and never
\* neither: a session that has been freed holds no buffer, and a routeQuery
\* that finds a buffered reply does not drop it without forwarding or
\* freeing it.
C13_NoBufferLost ==
    /\ [](csdata.state = SESSION_FREED => csdata.data = NULL)
    /\ [](\A f \in Buffers(hist.freed) : \A u \in Buffers(upstream) :
              u.own = <<>> => (u.to <= f.from \/ f.to <= u.from))
    /\ [][(downstream' # <<>> /\ csdata.data # NULL) =>
              \/ csdata'.data = csdata.data
              \/ csdata.data \in Buffers(upstream')
              \/ csdata.data \in Buffers(hist'.freed)]_vars

\* The names in a list of table names.
NamesOf(pzTables) == {pzTables[i] : i \in DOMAIN pzTables}

\* C14: the key depends on the default database, the query and the set of
\* table names only: any list of the same table names, in any order and with
\* any repetition, gives the key that the call returned.
C14_KeyOfTableSet ==
    keycall.called =>
        \A other \in TableLists :
            NamesOf(other) = NamesOf(keycall.pzTables) =>
                Get_key(keycall.zDefault_db, keycall.sql, other).key = keycall.key

\* Get_key was called with [db2.t, db1.t] and the default database db0.
C14_Witness ==
    /\ keycall.called
    /\ keycall.pzTables = <<Qualified(db2), Qualified(db1)>>
    /\ keycall.zDefault_db = DefaultDb(db0)
    /\ keycall.key = Get_key(DefaultDb(db0), keycall.sql,
                             <<Qualified(db1), Qualified(db2), Qualified(db1)>>).key

\* C15: when the classifier names a table without a database, the same query
\* under another default database gets a key with another first half and the
\* same second half.
C15_DefaultDbInKey ==
    (/\ keycall.called
     /\ ~keycall.zDefault_db.null
     /\ \E i \in DOMAIN keycall.pzTables : strchr_dot(keycall.pzTables[i]) = 0) =>
        \A db \in DefaultDbs :
            (~db.null /\ db # keycall.zDefault_db) =>
                LET key == Get_key(db, keycall.sql, keycall.pzTables).key
                IN  key[1] # keycall.key[1] /\ key[2] = keycall.key[2]

\* C16 as stated: Get_key returns CACHE_RESULT_OK, and with no table and no
\* default database the key is all zero bytes.
C16_ZeroedKey ==
    keycall.called =>
        /\ keycall.result = CACHE_RESULT_OK
        /\ (keycall.pzTables = <<>> /\ keycall.zDefault_db.null) =>
               keycall.key = ZeroKey

\* C16 as the code has it: Get_key returns CACHE_RESULT_OK, and with no table
\* and no default database the key is the digest of the empty tag followed by
\* the digest of the query, not zero bytes.
C16_EmptyTagKey ==
    keycall.called =>
        /\ keycall.result = CACHE_RESULT_OK
        /\ (keycall.pzTables = <<>> /\ keycall.zDefault_db.null) =>
               /\ keycall.key = <<SHA512(<<>>), SHA512(keycall.sql)>>
               /\ keycall.key[1] # ZeroDigest
               /\ keycall.key[2] # ZeroDigest

\* Get_key was called with no table and no default database.
C16_Witness ==
    /\ keycall.called
    /\ keycall.pzTables = <<>>
    /\ keycall.zDefault_db.null
    /\ keycall.result = CACHE_RESULT_OK

\* The pointer has moved by this many bytes.
Advanced == codec.res.pos - codec.pos

\* C17: for the shortest encoding of n, mxs_leint_value returns n,
\* mxs_leint_bytes returns the width of the encoding, 1, 3, 4 or 9 according to
\* the form, and mxs_leint_consume returns n and advances the pointer by that
\* width.
C17_LeintRoundTrip ==
    codec.kind = "leint" =>
        LET enc == leint_encode(codec.n)
            form == IF U64Small(codec.n) /\ U64ToNat(codec.n) < 251 THEN 1
                    ELSE IF U64Small(codec.n) /\ U64ToNat(codec.n) < 65536 THEN 3
                    ELSE IF U64Small(codec.n) /\ U64ToNat(codec.n) < 16777216 THEN 4
                    ELSE 9
        IN  /\ Len(enc) = form
            /\ codec.op = "mxs_leint_value" => codec.res.value = codec.n
            /\ codec.op = "mxs_leint_bytes" => codec.res.width = form
            /\ codec.op = "mxs_leint_consume" =>
                   codec.res.value = codec.n /\ Advanced = form

\* mxs_leint_consume has decoded the 0xfd encoding of 65536 that lies behind
\* two other bytes.
C17_Witness ==
    /\ codec.kind = "leint"
    /\ codec.op = "mxs_leint_consume"
    /\ codec.n = U64FromNat(65536)
    /\ codec.pos = 2
    /\ codec.res.pos = 6
    /\ codec.res.value = <<0, 0, 1, 0, 0, 0, 0, 0>>

\* C18: what mxs_leint_value returns for a first byte of 0xFF is not what it
\* returns for the encoding of any integer.
C18_MalformedDistinct ==
    (codec.op = "mxs_leint_value" /\ codec.buf[codec.pos + 1] = 255) =>
        \A n \in U64Values : mxs_leint_value(leint_encode(n)) # codec.res.value

GotStored ==
    /\ storage.last.op = "get_value"
    /\ storage.last.env.get_ok
    /\ storage.last.found.stored

\* The age of the entry that the latest get_value found.
FoundAge == storage.last.now - extract_timestamp(storage.last.found.value)

\* C20: a get_value that finds an entry older than a hard TTL above 0 returns
\* NotFound alone and no value, whatever the soft TTL and the flags, and has the
\* entry deleted: the entry is gone unless the Delete failed, which is only
\* logged.  Until the key is put again, every get_value whose Get succeeds
\* returns NotFound for it.  With a hard TTL of 0, get_value returns NotFound
\* alone for no entry it finds, and leaves the entry in the database.
C20_HardStale ==
    /\ (GotStored /\ storage.config.hard_ttl > 0 /\ FoundAge > storage.config.hard_ttl) =>
          /\ storage.last.result = {CACHE_RESULT_NOT_FOUND}
          /\ storage.last.pResult = NoValue
          /\ storage.last.env.delete_ok => ~storage.db[storage.last.key].stored
    /\ (/\ storage.last.op = "get_value"
        /\ storage.last.env.get_ok
        /\ storage.last.key \in storage.expired) =>
          storage.last.result = {CACHE_RESULT_NOT_FOUND}
    /\ (GotStored /\ storage.config.hard_ttl = 0) =>
          /\ storage.last.result # {CACHE_RESULT_NOT_FOUND}
          /\ storage.db[storage.last.key] = storage.last.found

\* A get_value with INCLUDE_STALE has found an entry older than both TTLs and
\* deleted it.
C20_Witness ==
    /\ GotStored
    /\ storage.config = [hard_ttl |-> 2, soft_ttl |-> 1]
    /\ FoundAge = 3
    /\ storage.last.flags = CACHE_FLAGS_INCLUDE_STALE
    /\ storage.last.env = AllOk
    /\ storage.last.result = {CACHE_RESULT_NOT_FOUND}
    /\ ~storage.db[storage.last.key].stored

\* The entry that the latest get_value found is older than the TTL, which is
\* above 0.
FoundPast(ttl) == ttl > 0 /\ FoundAge > ttl

\* C21: a get_value that finds an entry older than a soft TTL above 0, and not
\* older than a hard TTL above 0, returns Ok|Stale and the value when it was
\* passed INCLUDE_STALE and got a buffer for the value (OutOfResources and no
\* value when it got none), and NotFound|Stale and no value otherwise; the
\* entry stays in the database.  The Stale bit is in a result only when
\* get_value found an entry older than a soft TTL above 0.
C21_SoftStale ==
    /\ (/\ GotStored
        /\ storage.last.env.clock_ok
        /\ FoundPast(storage.config.soft_ttl)
        /\ ~FoundPast(storage.config.hard_ttl)) =>
          /\ storage.db[storage.last.key] = storage.last.found
          /\ IF storage.last.flags = CACHE_FLAGS_INCLUDE_STALE
             THEN IF storage.last.env.alloc_ok
                  THEN /\ storage.last.result = {CACHE_RESULT_OK, CACHE_RESULT_STALE}
                       /\ storage.last.pResult =
                              [null |-> FALSE,
                               bytes |-> SubSeq(storage.last.found.value, 1,
                                                Len(storage.last.found.value) - TS_LENGTH)]
                  ELSE /\ storage.last.result = {CACHE_RESULT_OUT_OF_RESOURCES}
                       /\ storage.last.pResult = NoValue
             ELSE /\ storage.last.result = {CACHE_RESULT_NOT_FOUND, CACHE_RESULT_STALE}
                  /\ storage.last.pResult = NoValue
    /\ (/\ storage.last.op = "get_value"
        /\ storage.last.env.clock_ok
        /\ CACHE_RESULT_STALE \in storage.last.result) =>
          GotStored /\ FoundPast(storage.config.soft_ttl)

\* A get_value with INCLUDE_STALE has returned a value of age 2 with the hard
\* TTL 2 and the soft TTL 1.
C21_Witness ==
    /\ GotStored
    /\ storage.config = [hard_ttl |-> 2, soft_ttl |-> 1]
    /\ FoundAge = 2
    /\ storage.last.flags = CACHE_FLAGS_INCLUDE_STALE
    /\ storage.last.env = AllOk
    /\ storage.last.result = {CACHE_RESULT_OK, CACHE_RESULT_STALE}
    /\ ~storage.last.pResult.null
    /\ storage.db[storage.last.key].stored

\* What the latest get_value's key was last written by.
WrittenBy == storage.written[storage.last.key]

\* now - time > ttl has not come true for a TTL above 0.
NotElapsed(ttl, time) == ttl = 0 \/ storage.last.now - time <= ttl

\* C22: when the latest change to a key was a successful put_value of v, a
\* get_value of the key whose calls all succeed, made before the soft and the
\* hard TTL have elapsed, returns Ok alone and v; when it was a successful
\* del_value, a get_value whose Get succeeds returns NotFound alone.
C22_PutGetDel ==
    storage.last.op = "get_value" =>
        /\ (/\ WrittenBy.by = "put_value"
            /\ storage.last.env = AllOk
            /\ NotElapsed(storage.config.soft_ttl, WrittenBy.time)
            /\ NotElapsed(storage.config.hard_ttl, WrittenBy.time)) =>
              /\ storage.last.result = {CACHE_RESULT_OK}
              /\ storage.last.pResult = [null |-> FALSE, bytes |-> WrittenBy.value]
        /\ (WrittenBy.by = "del_value" /\ storage.last.env.get_ok) =>
              /\ storage.last.result = {CACHE_RESULT_NOT_FOUND}
              /\ storage.last.pResult = NoValue

\* A get_value has returned the second value put under a key, a second after
\* it was put.
C22_Witness ==
    /\ storage.last.op = "get_value"
    /\ storage.last.env = AllOk
    /\ WrittenBy = [by |-> "put_value", value |-> <<8, 9>>, time |-> 1]
    /\ storage.last.now = 2
    /\ storage.config = [hard_ttl |-> 2, soft_ttl |-> 1]
    /\ storage.last.pResult = [null |-> FALSE, bytes |-> <<8, 9>>]
    /\ storage.last.result = {CACHE_RESULT_OK}

\* The value of the first parameter of that name.
Given(name) == querylog.params.list[first_named(querylog.params.list, name)].value

Has(name) == ~querylog.params.null /\ first_named(querylog.params.list, name) # 0

\* The text of the interval is a decimal number without sign.
Unsigned(str) == str # <<>> /\ \A i \in DOMAIN str : isdigit(str[i])

\* The 'interval' parameter is negative: a minus sign and a number above 0, with
\* or without white space before it.
NegativeInterval ==
    /\ Has(Name_interval)
    /\ LET str == skip_spaces(Given(Name_interval))
       IN  /\ Len(str) >= 2
           /\ str[1] = 45
           /\ isdigit(str[2])
           /\ \E i \in 2..Len(str) : str[i] \in 49..57 /\ \A j \in 2..i : isdigit(str[j])

\* C23: parseParameters returns false when there is no 'filebase' or when
\* 'interval' is negative, and true otherwise, with the file base and the
\* interval stored, the interval 60 when there is no 'interval'; createInstance
\* returns NULL exactly when parseParameters fails or params is NULL, and
\* otherwise an instance with the file base, the interval and no sessions.
C23_Parameters ==
    querylog.phase = "params" =>
        LET fails == ~Has(Name_filebase) \/ NegativeInterval
        IN  /\ querylog.op = "parseParameters" =>
                /\ querylog.ok = ~fails
                /\ querylog.ok =>
                    /\ querylog.target.filebase = strdup(Given(Name_filebase))
                    /\ ~Has(Name_interval) => querylog.target.loggingInterval = 60
                    /\ (Has(Name_interval) /\ Unsigned(Given(Name_interval))) =>
                           atoi(Given(Name_interval)) =
                               [defined |-> TRUE,
                                val |-> querylog.target.loggingInterval]
            /\ (querylog.op = "createInstance" /\ querylog.malloced) =>
                /\ querylog.instance.null = (querylog.params.null \/ fails)
                /\ ~querylog.instance.null =>
                    /\ querylog.instance.sessions = 0
                    /\ querylog.instance.filebase = strdup(Given(Name_filebase))
                    /\ ~Has(Name_interval) => querylog.instance.loggingInterval = 60
                    /\ (Has(Name_interval) /\ Unsigned(Given(Name_interval))) =>
                           atoi(Given(Name_interval)) =
                               [defined |-> TRUE,
                                val |-> querylog.instance.loggingInterval]

\* C24: newSession prints the file name "<filebase>.<N>" with N the session
\* count, which it then increments by one, and no two sessions that newSession
\* returns have the same file name, however the threads' calls interleave.
C24_SessionFileNames ==
    /\ []((querylog.phase = "sessions") =>
            \A i, j \in DOMAIN querylog.returned :
                (i # j /\ ~querylog.returned[i].null) =>
                    querylog.returned[i] # querylog.returned[j])
    /\ [][querylog.phase = "sessions" =>
            \A t \in Threads :
                /\ (querylog.threads[t].pc = "idle" /\ querylog'.threads[t].pc = "counting") =>
                       querylog'.threads[t].filename =
                           querylog.instance.filebase.str \o <<46>>
                               \o decimal(querylog.instance.sessions)
                /\ (querylog.threads[t].pc = "counting" /\ querylog'.threads[t].pc = "opening") =>
                       querylog'.instance.sessions = querylog.instance.sessions + 1]_vars

\* The reply is two result sets whose EOF packets carry
\* SERVER_MORE_RESULTS_EXIST, followed by a final OK packet, within the limits.
CallReply == MultiReply /\ wire[Len(wire)].role = "ok"

\* C25 as stated: after a multi-result-set response that ends with a final OK
\* has been forwarded upstream, the state is EXPECTING_NOTHING.
C25_FinalOkExpectingNothing ==
    (CallReply /\ ReceivedWireUpTo(WireLen(wire))) =>
        csdata.state = MAXROWS_EXPECTING_NOTHING

\* C25: after a multi-result-set response that ends with a final OK has been
\* forwarded upstream, the state is IGNORING_RESPONSE: the final OK is handled
\* by handle_expecting_response, which forwards and ignores what follows.
C25_FinalOkIgnoring ==
    (CallReply /\ ReceivedWireUpTo(WireLen(wire))) =>
        csdata.state = MAXROWS_IGNORING_RESPONSE

\* Both result sets and the final OK have been forwarded by a call made in
\* EXPECTING_RESPONSE.
C25_Witness ==
    /\ CallReply
    /\ Complete
    /\ ReceivedWireUpTo(WireLen(wire))
    /\ last.pre_state = MAXROWS_EXPECTING_RESPONSE
    /\ csdata.state = MAXROWS_IGNORING_RESPONSE

\* Where in the wire the buffer starts that the next call will hold.
PendingFrom == IF csdata.data = NULL THEN sent ELSE csdata.data.from

\* The call that delivers the bytes up to `to` is made in EXPECTING_RESPONSE
\* and finds the first payload byte of the packet at the offset to be 0x00 or
\* 0xff.
OkOrErrAtOffset(to) ==
    /\ csdata.state = MAXROWS_EXPECTING_RESPONSE
    /\ to > sent
    /\ PendingFrom + csdata.offset + MYSQL_HEADER_LEN < to
    /\ WireByte(wire, PendingFrom + csdata.offset + MYSQL_HEADER_LEN) \in {0, 255}

\* What the call does with an OK or ERR packet in EXPECTING_RESPONSE.
OkOrErrHandled ==
    [][OkOrErrAtOffset(sent') =>
          IF csdata'.discard_resultset
          THEN /\ upstream' = Append(upstream, OwnBuf(OkPacket))
               /\ csdata'.data = NULL
               /\ hist'.freed = Append(hist.freed, WireBuf(PendingFrom, sent'))
               /\ csdata'.state = MAXROWS_EXPECTING_NOTHING
          ELSE /\ upstream' = Received(upstream, <<WireBuf(PendingFrom, sent')>>)
               /\ csdata'.data = NULL
               /\ csdata'.state = MAXROWS_IGNORING_RESPONSE]_vars

\* An ERR reply larger than max_resultset_size has reached the client as the
\* synthetic OK and nothing else.
LargeErrAsOk ==
    (Qualifying /\ wire = Layout(<<ErrFrame>>) /\ Complete
        /\ WireLen(wire) > config.max_resultset_size) => ReceivedOnlyOk

\* C26: in EXPECTING_RESPONSE, when the packet at the offset starts with 0x00
\* or 0xff: with discard_resultset set the synthetic OK is sent, the pending
\* buffer is freed and the state becomes EXPECTING_NOTHING; otherwise the
\* pending buffer is forwarded unchanged and the state becomes
\* IGNORING_RESPONSE; and an ERR reply larger than max_resultset_size reaches
\* the client as the OK.
C26_OkOrErrResponse == OkOrErrHandled /\ []LargeErrAsOk

\* The reply is one result set of ordinary rows whose last packet is an EOF
\* packet shorter than MAXROWS_EOF_PACKET_LEN.
ShortEofReply ==
    /\ Qualifying
    /\ wire # <<>>
    /\ wire[Len(wire)].role = "shorteof"
    /\ PacketLen(wire[Len(wire)]) < MAXROWS_EOF_PACKET_LEN

WithinLimits ==
    /\ NumRows <= config.max_resultset_rows
    /\ WireLen(wire) <= config.max_resultset_size

ConsumedLast(i) ==
    /\ csdata.data # NULL
    /\ wire[i].at + PacketLen(wire[i]) = csdata.data.from + csdata.offset

\* C28: in EXPECTING_ROWS large_packet is true iff the packet consumed last
\* had a payload of 0xFFFFFF bytes; after the short final frame of a large
\* row large_packet is false, so that a short row packet that follows is
\* counted as a row and not taken as another terminator.
C28_LargePacketFlag ==
    (Qualifying /\ csdata.state = MAXROWS_EXPECTING_ROWS) =>
        \A i \in DOMAIN wire :
            ConsumedLast(i) =>
                (csdata.large_packet <=> wire[i].len = MYSQL_PACKET_LENGTH_MAX)

\* The logical rows of the whole reply.
LogicalRows == RowsBefore(WireLen(wire))

\* C29: after every call of clientReply, n_rows > max_resultset_rows implies
\* discard_resultset, also when the row over the limit was counted on the
\* short final frame of a large row; and no reply with more than
\* max_resultset_rows logical rows is forwarded unchanged.
C29_RowLimitEnforced ==
    Qualifying =>
        /\ csdata.n_rows > config.max_resultset_rows => csdata.discard_resultset
        /\ (Complete /\ LogicalRows > config.max_resultset_rows) =>
               ~ReceivedWireUpTo(WireLen(wire))

\* n_fields <= n_totalfields, the latter an unsigned 64-bit number.
FieldsWithinTotal(cs) ==
    \/ \E k \in 4..8 : cs.n_totalfields[k] # 0
    \/ cs.n_fields <= cs.n_totalfields[1] + 256 * cs.n_totalfields[2]
                          + 65536 * cs.n_totalfields[3]

\* C30: in every reachable state n_fields <= n_totalfields, so the assertion
\* after each field packet (line 521) never fails, whatever the server sends
\* after a header that declares n_totalfields columns, in the first result
\* set and in later ones.
C30_FieldsWithinTotal == Qualifying => FieldsWithinTotal(csdata)

\* Frame i is a result set header and starts where the offset stands, in
\* EXPECTING_RESPONSE.
HeaderAtOffset(i) ==
    /\ Qualifying
    /\ csdata.state = MAXROWS_EXPECTING_RESPONSE
    /\ wire[i].role = "header"
    /\ wire[i].at = PendingFrom + csdata.offset

\* The column count that the header frame holds.
Declared(f) ==
    IF f.pre[1] < 251 THEN f.pre[1] ELSE f.pre[2] + 256 * f.pre[3]

\* What a call does that finds header frame i at the offset: with the whole
\* header buffered n_totalfields is its count and the offset moves past it,
\* exactly to its end when nothing follows it in the buffer; otherwise
\* nothing changes.
HeaderHandled(i) ==
    IF sent' >= wire[i].at + PacketLen(wire[i])
    THEN /\ csdata'.n_totalfields = U64FromNat(Declared(wire[i]))
         /\ csdata'.offset >= csdata.offset + PacketLen(wire[i])
         /\ sent' = wire[i].at + PacketLen(wire[i]) =>
                /\ csdata'.offset = csdata.offset + PacketLen(wire[i])
                /\ csdata'.state = MAXROWS_EXPECTING_FIELDS
    ELSE /\ csdata'.offset = csdata.offset
         /\ csdata'.state = MAXROWS_EXPECTING_RESPONSE
         /\ csdata'.n_totalfields = U64Zero
         /\ upstream' = upstream

\* C31: for the header of the first result set (offset 0) and of a later one
\* (offset > 0), n_totalfields is set to the length-encoded integer at the
\* first payload byte of the packet at the offset, the header is consumed
\* only when 4 bytes and the integer are buffered from the offset on, and the
\* offset advances by exactly that many bytes.
C31_HeaderAtOffset ==
    [][\A i \in DOMAIN wire :
          (HeaderAtOffset(i) /\ sent' > sent) => HeaderHandled(i)]_vars

\* Frame i starts where the offset stands and the call that delivers the
\* bytes up to `to` is made in a parsing state without the whole of it.
IncompleteAtOffset(i, to) ==
    /\ Qualifying
    /\ csdata.state \in Parsing
    /\ to > sent
    /\ wire[i].at = PendingFrom + csdata.offset
    /\ to < wire[i].at + PacketLen(wire[i])

\* The call has sent nothing and has left the parsing state as it was.
NothingDone ==
    /\ upstream' = upstream
    /\ csdata'.state = csdata.state
    /\ csdata'.offset = csdata.offset
    /\ csdata'.n_rows = csdata.n_rows
    /\ csdata'.n_fields = csdata.n_fields
    /\ csdata'.large_packet = csdata.large_packet

\* C32: a call that leaves the packet at the offset incomplete (fewer than 4
\* header bytes, no command byte in EXPECTING_RESPONSE, or a payload that is
\* not buffered whole) sends nothing upstream and leaves state, offset,
\* n_rows, n_fields and large_packet unchanged, in the first and in every
\* later result set.
C32_IncompleteWaits ==
    [][\A i \in DOMAIN wire : IncompleteAtOffset(i, sent') => NothingDone]_vars

\* The call has handed upstream, as one buffer, what was pending together
\* with the chunk that ends at `to`, and nothing is buffered any more.
Flushed(to) ==
    /\ upstream' = Received(upstream, <<WireBuf(PendingFrom, to)>>)
    /\ csdata'.data = NULL

\* C33 as stated: data that arrives in EXPECTING_NOTHING is flushed upstream
\* and the state becomes IGNORING_RESPONSE.
C33_NothingThenIgnoring ==
    [][(csdata.state = MAXROWS_EXPECTING_NOTHING /\ sent' > sent) =>
          Flushed(sent') /\ csdata'.state = MAXROWS_IGNORING_RESPONSE]_vars

\* C33: data that arrives in EXPECTING_NOTHING is flushed upstream in the
\* same call and the state stays EXPECTING_NOTHING, so that further data is
\* passed through in the same way until the next request.
C33_NothingFlushes ==
    [][(csdata.state = MAXROWS_EXPECTING_NOTHING /\ sent' > sent) =>
          Flushed(sent') /\ csdata'.state = MAXROWS_EXPECTING_NOTHING]_vars

\* After the synthetic OK, two more chunks of the reply have arrived in
\* EXPECTING_NOTHING and have been passed on.
C33_Witness ==
    /\ Qualifying
    /\ last.pre_state = MAXROWS_EXPECTING_NOTHING
    /\ csdata.state = MAXROWS_EXPECTING_NOTHING
    /\ last.n_up = 1
    /\ Len(upstream) = 2
    /\ upstream[1].own = OkPacket
    /\ upstream[2].own = <<>> /\ upstream[2].to = sent
    /\ upstream[2].to - upstream[2].from > last.buflen

\* C34: in IGNORING_RESPONSE every chunk is forwarded unchanged within the
\* call that delivers it, whatever its size and content; the size check is
\* not made, and state, discard_resultset, n_rows and offset stay as they are.
C34_IgnoringForwards ==
    [][(csdata.state = MAXROWS_IGNORING_RESPONSE /\ sent' > sent) =>
          /\ Flushed(sent')
          /\ ~last'.guard_set
          /\ csdata'.state = MAXROWS_IGNORING_RESPONSE
          /\ csdata'.discard_resultset = csdata.discard_resultset
          /\ csdata'.n_rows = csdata.n_rows
          /\ csdata'.offset = csdata.offset]_vars

\* A chunk larger than max_resultset_size has been forwarded in
\* IGNORING_RESPONSE, after a request that is not watched or after the first
\* bytes of an ERR packet were forwarded.
C34_Witness ==
    /\ last.pre_state = MAXROWS_IGNORING_RESPONSE
    /\ csdata.state = MAXROWS_IGNORING_RESPONSE
    /\ last.buflen > config.max_resultset_size
    /\ ~csdata.discard_resultset
    /\ upstream # <<>> /\ upstream[Len(upstream)].to = sent
    /\ request = MYSQL_COM_PING \/ wire[1].role = "err"

\* The reply carries a frame of payload 0xFFFFFF.
HasLargeRow == \E i \in DOMAIN wire : wire[i].role = "rowpart"

\* C37: once the last byte of the terminal packet of a reply to COM_QUERY or
\* COM_STMT_EXECUTE has been delivered, the call that delivered it has sent
\* the reply or the synthetic OK upstream, also when the same chunk held a
\* frame of payload 0xFFFFFF or the final frame of a large row: no reply
\* stays buffered when no more bytes are to come.
C37_TerminalPacketEmits ==
    (Qualifying /\ Complete) =>
        /\ upstream # <<>>
        /\ csdata.data = NULL
        /\ last.n_up >= 1

\* C38: for the same query, a call whose set of referenced databases differs
\* from that of the call made returns a key with another first half: the tag
\* made of the sorted database names tells the sets of databases apart.
C38_TagSeparatesDbSets ==
    keycall.called =>
        \A db \in DefaultDbs : \A other \in TableLists :
            collect_dbs(db, other) # collect_dbs(keycall.zDefault_db, keycall.pzTables) =>
                Get_key(db, keycall.sql, other).key[1] # keycall.key[1]

\* Thread t finishes its get_value with the Delete and takes away what is
\* under its key.
GetterRemoves(t) ==
    /\ "getters" \in DOMAIN storage
    /\ storage.getters[t].pc = "delete"
    /\ storage'.getters[t].pc = "idle"
    /\ storage.db[storage.getters[t].key].stored
    /\ ~storage'.db[storage.getters[t].key].stored

\* C39: whatever calls of put_value, del_value and get_value other threads
\* make in between, the Delete of a get_value that read the clock removes
\* only an entry that is older than the hard TTL: a value that a put_value
\* has stored since, and that is not hard stale, stays.
C39_GetDeletesOnlyHardStale ==
    [][\A t \in Threads :
          (GetterRemoves(t) /\ storage.getters[t].clock_ok) =>
              PastHardTtl(storage, storage.getters[t].key)]_vars

\* Two chars that are the same letter in either case, or the same char.
SameChar(a, b) ==
    \/ a = b
    \/ a \in 65..90 /\ b = a + 32
    \/ b \in 65..90 /\ a = b + 32

\* kw begins str, the case of the letters aside.
PrefixNoCase(kw, str) ==
    /\ Len(str) >= Len(kw)
    /\ \A i \in 1..Len(kw) : SameChar(kw[i], str[i])

CounterKeyword ==
    [selectQuery |-> Type_select, insertQuery |-> Type_insert,
     updateQuery |-> Type_update, deleteQuery |-> Type_delete]

UpdateCountersCalled == querylog.phase = "counters" /\ querylog.call.op = "updateCounters"

\* C35: updateCounters adds one to the counter whose keyword begins the query
\* string, whatever the case of its letters, and leaves the other counters as
\* they were; no counter changes when no keyword begins the string.  A string
\* that is no valid SQL, such as "SELECT;", is counted too.
C35_UpdateCounters ==
    UpdateCountersCalled =>
        /\ \A c \in DOMAIN CounterKeyword :
              querylog.session.counters[c] =
                  querylog.call.session.counters[c]
                      + (IF PrefixNoCase(CounterKeyword[c], querylog.call.queryStr)
                         THEN 1 ELSE 0)
        /\ querylog.call.queryStr = <<83, 69, 76, 69, 67, 84, 59>> =>
              querylog.session.counters.selectQuery
                  = querylog.call.session.counters.selectQuery + 1

\* "SELECT;" has been counted by a session that had counted a select and a
\* delete before.
C35_Witness ==
    /\ UpdateCountersCalled
    /\ querylog.call.queryStr = <<83, 69, 76, 69, 67, 84, 59>>
    /\ querylog.session.counters.selectQuery = 2
    /\ querylog.session.counters.deleteQuery = 1
    /\ querylog.session.counters.insertQuery = 0

\* The number that a string of decimal digits writes.
RECURSIVE NumberOf(_)
NumberOf(str) ==
    IF str = <<>> THEN 0
    ELSE 10 * NumberOf(SubSeq(str, 1, Len(str) - 1)) + (str[Len(str)] - 48)

\* The seconds since 1970 that a "1970-01-DD HH:MM:SS" of UTC names.
SecondsOf(str) ==
    86400 * (NumberOf(SubSeq(str, 9, 10)) - 1) + 3600 * NumberOf(SubSeq(str, 12, 13))
        + 60 * NumberOf(SubSeq(str, 15, 16)) + NumberOf(SubSeq(str, 18, 19))

WriteLogCalled == querylog.phase = "counters" /\ querylog.call.op = "writeLogIfNeeded"

\* The condition the log is written on.
ShouldLog(timestamp, loggingInterval, now) ==
    now >= timestamp + loggingInterval \/ timestamp > now

\* The last line of the log names the start and the end of the interval and
\* the counters of the session `before`.
LastLineOf(fp, before, now) ==
    LET line == fp[Len(fp)]
    IN  /\ Len(line) = 6
        /\ Len(line[1]) = 19 /\ SecondsOf(line[1]) = before.timestamp
        /\ Len(line[2]) = 19 /\ SecondsOf(line[2]) = now
        /\ NumberOf(line[3]) = before.counters.selectQuery
        /\ NumberOf(line[4]) = before.counters.insertQuery
        /\ NumberOf(line[5]) = before.counters.updateQuery
        /\ NumberOf(line[6]) = before.counters.deleteQuery

AllZero(counters) == \A c \in DOMAIN counters : counters[c] = 0

\* C36: writeLogIfNeeded(session, interval) writes a line exactly when
\* now >= timestamp + interval or timestamp > now, so always when the interval
\* is 0.  The line names the start of the interval, now and the four counters;
\* after it the counters are zero and the timestamp is now.  When no line is
\* written the counters and the timestamp are as before.
C36_WriteLogIfNeeded ==
    WriteLogCalled =>
        LET before == querylog.call.session
            after == querylog.session
            now == querylog.call.now
        IN  IF ShouldLog(before.timestamp, querylog.call.loggingInterval, now)
            THEN /\ Len(after.fp) = Len(before.fp) + 1
                 /\ SubSeq(after.fp, 1, Len(before.fp)) = before.fp
                 /\ LastLineOf(after.fp, before, now)
                 /\ AllZero(after.counters)
                 /\ after.timestamp = now
            ELSE /\ querylog.call.loggingInterval # 0
                 /\ after = before

\* A line has been written because the clock had jumped back, by a session
\* that had counted a select and an update.
C36_Witness ==
    /\ WriteLogCalled
    /\ querylog.call.session.timestamp > querylog.call.now
    /\ querylog.call.loggingInterval = 2
    /\ querylog.call.session.counters.selectQuery = 1
    /\ querylog.call.session.counters.updateQuery = 1
    /\ Len(querylog.session.fp) = 2
    /\ AllZero(querylog.session.counters)

\* The sum of the field k of the lines of the log from the line i on.
RECURSIVE LoggedFrom(_, _, _)
LoggedFrom(fp, k, i) ==
    IF i > Len(fp) THEN 0 ELSE NumberOf(fp[i][k]) + LoggedFrom(fp, k, i + 1)

\* The field of a log line that holds a counter.
CounterField ==
    [selectQuery |-> 3, insertQuery |-> 4, updateQuery |-> 5, deleteQuery |-> 6]

\* What the log says of the counter c, the line of the column names aside.
Logged(c) == LoggedFrom(querylog.session.fp, CounterField[c], 2)

\* The number of routed queries that begin with the keyword of the counter c.
Routed(c) ==
    Cardinality({i \in DOMAIN querylog.routed :
                    /\ ~querylog.routed[i].null
                    /\ PrefixNoCase(CounterKeyword[c], querylog.routed[i].str)})

\* C40: the queries routed to a session are passed downstream once each and
\* in their order; of each type, the counts in the lines of the log and the
\* count not yet logged add up to the number of routed queries that begin
\* with its keyword, so no query is counted twice or lost at a log write; and
\* closeSession writes what was left, so that the log of a closed session
\* alone gives these numbers.
C40_CountersConserved ==
    querylog.phase = "log" =>
        /\ querylog.session.down = querylog.routed
        /\ \A c \in DOMAIN CounterKeyword :
              Logged(c) + querylog.session.counters[c] = Routed(c)
        /\ ~querylog.session.open =>
              /\ AllZero(querylog.session.counters)
              /\ Len(querylog.session.fp) >= 2
              /\ \A c \in DOMAIN CounterKeyword : Logged(c) = Routed(c)

\* A closed session whose two selects are in different lines of its log: the
\* counters were reset between them.
C40_Witness ==
    /\ querylog.phase = "log"
    /\ ~querylog.session.open
    /\ Routed("selectQuery") = 2
    /\ \E i, j \in 2..Len(querylog.session.fp) :
          /\ i < j
          /\ NumberOf(querylog.session.fp[i][3]) = 1
          /\ NumberOf(querylog.session.fp[j][3]) = 1

=============================================================================
